---- MODULE Spec2Model ----
(***************************************************************************)
(* A model of the lapdog LDAP client: the connection typestate, the        *)
(* message transport (send_single_message), the bind operations, StartTLS, *)
(* unbind, and the streaming search iterator (SearchResults::next).        *)
(*                                                                         *)
(* Bytes are naturals.  One LdapMessage is framed as a definite-length TLV *)
(* <<48, L, message_id, op tag, args...>> with L the number of bytes that  *)
(* follow the length byte; the decoder reports Incomplete on every strict  *)
(* prefix of a frame, as the BER decoder does.                             *)
(***************************************************************************)
EXTENDS Naturals, Integers, Sequences, FiniteSets, TLC

VARIABLES
    conn,      \* the LdapConnection: [held, stream, next_message_id, state]
    rx,        \* bytes the server has sent that no read has consumed yet
    rxEnd,     \* "Eof" once the peer has closed its side, "Open" before
    rxFail,    \* number of transient read failures the stream may still produce
    sent,      \* message ids of the LdapMessages written to the stream, in order
    xchg,      \* the send_single_message calls of the last operation, in order
    result,    \* what the last operation returned to the caller
    iter,      \* the SearchResults iterator: [active, remainder, done, id]
    script,    \* the PDUs the server sends in answer to the current search
    polls,     \* what each call of SearchResults::next returned, in order
    lastRead,  \* whether the last call of next read from the stream
    overlay    \* the KerberosEncryptedStream: [buffer, max_buffer_size]

vars ==
    <<conn, rx, rxEnd, rxFail, sent, xchg, result, iter, script, polls, lastRead, overlay>>

-----------------------------------------------------------------------------
(* Bounds of the model *)

(* The messages written on one connection; a Kerberos bind starts only     *)
(* with its three messages to spare and takes a Continue round only with a *)
(* fourth                                                                  *)
MaxMsgs == 3
(* The PDUs of a search answer before its SearchResultDone *)
MaxPdus == 2
(* The polls of one search *)
MaxPolls == 5

(* The tickets of the GSSAPI token loop in a run that is only a bind *)
MaxTickets == 1

(* Program constants *)

TEMP_BUFFER_LENGTH == 1024

-----------------------------------------------------------------------------
(* Option values *)

None == <<>>
Some(v) == <<v>>

Min(a, b) == IF a < b THEN a ELSE b

RECURSIVE Concat(_)
Concat(ss) == IF ss = <<>> THEN <<>> ELSE Head(ss) \o Concat(Tail(ss))

Take(s, n) == SubSeq(s, 1, n)
Drop(s, n) == SubSeq(s, n + 1, Len(s))

-----------------------------------------------------------------------------
(* rasn_ldap vocabulary: protocol op tags and result codes (RFC 4511) *)

OpTag ==
    [BindResponse |-> 1, SearchResEntry |-> 4, SearchResDone |-> 5,
     SearchResRef |-> 19, ExtendedResp |-> 24]

ResultCode ==
    [Success |-> 0, OperationsError |-> 1, ProtocolError |-> 2,
     TimeLimitExceeded |-> 3, SizeLimitExceeded |-> 4, Referral |-> 10,
     ConfidentialityRequired |-> 13, SaslBindInProgress |-> 14,
     NoSuchObject |-> 32, InvalidDnSyntax |-> 34,
     InappropriateAuthentication |-> 48, InvalidCredentials |-> 49,
     InsufficientAccessRights |-> 50, Busy |-> 51, Unavailable |-> 52,
     UnwillingToPerform |-> 53]

(* LdapMessage::new(id, op); op is [tag, args] *)
LdapMessage(id, op) == [message_id |-> id, protocol_op |-> op]

Op(tag, args) == [tag |-> tag, args |-> args]

(* rasn::ber::encode(&message) *)
Encode(m) ==
    LET content == <<m.message_id, m.protocol_op.tag>> \o m.protocol_op.args
    IN  <<48, Len(content)>> \o content

(* Number of argument bytes each protocol op carries in this framing:      *)
(* BindResponse <<result_code, server_sasl_creds, referral>>,              *)
(* SearchResEntry <<entry>>, SearchResDone <<result_code>>,                *)
(* SearchResRef <<>>, ExtendedResp <<result_code, response_name>>          *)
OpArity(tag) ==
    CASE tag = OpTag.BindResponse -> 3
      [] tag = OpTag.SearchResEntry -> 1
      [] tag = OpTag.SearchResDone -> 1
      [] tag = OpTag.SearchResRef -> 0
      [] tag = OpTag.ExtendedResp -> 2
      [] OTHER -> -1

(* rasn::ber::decode_with_remainder::<LdapMessage>(&buf) *)
DecodeWithRemainder(buf) ==
    IF Len(buf) = 0 THEN [status |-> "Incomplete"]
    ELSE IF buf[1] # 48 THEN [status |-> "Error"]
    ELSE IF Len(buf) < 2 THEN [status |-> "Incomplete"]
    ELSE IF buf[2] < 2 THEN [status |-> "Error"]
    ELSE IF Len(buf) < 2 + buf[2] THEN [status |-> "Incomplete"]
    ELSE IF OpArity(buf[4]) # buf[2] - 2 THEN [status |-> "Error"]
    ELSE [status |-> "Ok",
          message |-> LdapMessage(buf[3], Op(buf[4], SubSeq(buf, 5, 2 + buf[2]))),
          remainder |-> Drop(buf, 2 + buf[2])]

(* rasn::ber::decode::<LdapMessage>(&buf): the same parse, the bytes after *)
(* the first frame are not looked at                                       *)
Decode(buf) ==
    LET d == DecodeWithRemainder(buf)
    IN  IF d.status = "Ok" THEN [status |-> "Ok", message |-> d.message] ELSE d

-----------------------------------------------------------------------------------------------------------------------------------------------------
(* The byte stream.  st = [rx, fail, end]: the unread inbound bytes, the   *)
(* number of transient read failures left, and whether the peer has closed *)
(* ("Open" or "Eof").                                                      *)

Stream(q, f, e) == [rx |-> q, fail |-> f, end |-> e]

(* self.stream.read(&mut temp_buffer): every outcome one call can have.    *)
(* With bytes pending it returns any non-empty prefix that fits the buffer *)
(* or fails transiently; with none pending it returns Ok(0) when the peer  *)
(* has closed (or closes now) and fails with a timeout otherwise.          *)
ReadOutcomes(st) ==
    IF st.rx = <<>>
    THEN {[kind |-> "Ok", bytes |-> <<>>, st |-> [st EXCEPT !.end = "Eof"]]}
         \cup (IF st.end = "Open" THEN {[kind |-> "Err", bytes |-> <<>>, st |-> st]} ELSE {})
    ELSE {[kind |-> "Ok", bytes |-> Take(st.rx, n), st |-> [st EXCEPT !.rx = Drop(st.rx, n)]] :
             n \in 1 .. Min(Len(st.rx), TEMP_BUFFER_LENGTH)}
         \cup (IF st.fail > 0
               THEN {[kind |-> "Err", bytes |-> <<>>, st |-> [st EXCEPT !.fail = st.fail - 1]]}
               ELSE {})

-----------------------------------------------------------------------------
(* The connection *)

BindStates ==
    {"Unbound", "BoundAnonymously", "BoundUnauthenticated", "BoundAuthenticated",
     "BoundNativeTls", "BoundRustls", "BoundKerberos"}

StreamKinds == {"Tcp", "NativeTls", "Rustls", "KerberosEncrypted"}

(* LdapConnection::new_unbound(stream) *)
new_unbound(stream) ==
    [held |-> TRUE, stream |-> stream, next_message_id |-> 1, state |-> "Unbound"]

(* A connection value that was moved into an operation and dropped there *)
Dropped(c) == [c EXCEPT !.held = FALSE]

(* unsafe impl Safe for native_tls::TlsStream / rustls::StreamOwned *)
Safe(stream) == stream \in {"NativeTls", "Rustls"}

(* A counter that hands out the same id again *)
NextIdAfter_Stuck(n) == n

(* get_and_increase_message_id: self.next_message_id += 1.  The counter is *)
(* a u32; a run bounded by MaxMsgs stays far below 2^32, so the overflow   *)
(* of the addition is out of reach here                                    *)
NextIdAfter(n) == n + 1

get_and_increase_message_id(c) ==
    [id |-> c.next_message_id,
     conn |-> [c EXCEPT !.next_message_id = NextIdAfter(c.next_message_id)]]

(* What send_single_message does with the bytes of its one read *)
DecodeResponse(id, buf) ==
    LET d == Decode(buf)
    IN  IF d.status = "Ok"
        THEN [ok |-> TRUE, op |-> d.message.protocol_op]
        ELSE [ok |-> FALSE, err |-> "Message"]

(* The record kept of one send_single_message call: the request id, the    *)
(* server's reply, whether the one read returned all of it or a proper     *)
(* part of it, the message id of the frame the call decoded, and what the  *)
(* call returned                                                           *)
ExchangeLog(id, wrote, reply, read, ret) ==
    [id |-> id, wrote |-> wrote, reply |-> reply,
     whole |-> (read = reply),
     split |-> (read # <<>> /\ Len(read) < Len(reply) /\ read = Take(reply, Len(read))),
     response_id |-> IF ret.ok THEN Some(Decode(read).message.message_id) ELSE None,
     ret |-> ret]

(* send_single_message(protocol_op): every outcome [conn, st, ret, log] of *)
(* one call, over whether write_all succeeds, which of `replies` the       *)
(* server sends in answer, and what the one read returns                   *)
send_single_message(c, st, replies) ==
    LET g   == get_and_increase_message_id(c)
        io  == [ok |-> FALSE, err |-> "Io"]
    IN  {[conn |-> g.conn, st |-> st, ret |-> io,
          log |-> ExchangeLog(g.id, FALSE, <<>>, <<>>, io)]}
        \cup UNION {
            { LET ret == IF r.kind = "Err" \/ r.bytes = <<>> THEN io
                         ELSE DecodeResponse(g.id, r.bytes)
              IN  [conn |-> g.conn, st |-> r.st, ret |-> ret,
                   log |-> ExchangeLog(g.id, TRUE, reply, r.bytes, ret)]
              : r \in ReadOutcomes([st EXCEPT !.rx = st.rx \o reply]) }
            : reply \in replies }

-----------------------------------------------------------------------------
(* Inputs of the operations *)

Names == {"", "cn=admin"}
Passwords == {<<>>, <<115>>}

CodeNames == DOMAIN ResultCode

CodeName(n) ==
    IF \E k \in CodeNames : ResultCode[k] = n
    THEN CHOOSE k \in CodeNames : ResultCode[k] = n
    ELSE "Unknown"

Flag(b) == IF b THEN 1 ELSE 0

BindResponse(id, code, sasl, referral) ==
    Encode(LdapMessage(id, Op(OpTag.BindResponse, <<ResultCode[code], Flag(sasl), Flag(referral)>>)))

ExtendedResp(id, code, echo) ==
    Encode(LdapMessage(id, Op(OpTag.ExtendedResp, <<ResultCode[code], Flag(echo)>>)))

(* What a server may send in answer to the request with message id `id`:   *)
(* nothing, bytes that are no frame, a response of another kind, or a      *)
(* response of the expected kind, each under the request's id or another   *)
NoReply == <<>>
Garbage == <<255>>

WrongId(id) == id + 1

BindReplies(id, codes) ==
    {NoReply, Garbage, ExtendedResp(id, "Success", TRUE)}
    \cup {BindResponse(id, code, FALSE, FALSE) : code \in codes}
    \cup {BindResponse(id, code, TRUE, FALSE) : code \in codes \cap {"Success", "InvalidCredentials"}}
    \cup {BindResponse(id, code, FALSE, TRUE) : code \in codes \cap {"Success", "Referral"}}
    \cup {BindResponse(WrongId(id), code, FALSE, FALSE) :
            code \in codes \cap {"Success", "InvalidCredentials"}}

ExtendedReplies(id) ==
    {NoReply, Garbage, BindResponse(id, "Success", FALSE, FALSE)}
    \cup {ExtendedResp(id, code, echo) :
            code \in {"Success", "ProtocolError", "Unavailable"}, echo \in BOOLEAN}
    \cup {ExtendedResp(WrongId(id), code, TRUE) : code \in {"Success", "Unavailable"}}

-----------------------------------------------------------------------------
(* Simple bind *)

(* The request bind_simple_raw builds: BindRequest::new(3, name, Simple(password)) *)
SimpleBindRequest(name, password) ==
    [kind |-> "BindRequest", version |-> 3, name |-> name,
     auth |-> [choice |-> "Simple", password |-> password]]

(* Entry points that accept an empty name *)
SimpleBindPrecondition_NoNameCheck(entry, name, password) ==
    IF entry = "authenticated" /\ password = <<>> THEN Some("EmptyPassword") ELSE None

(* inner_bind_simple_*: the precondition each entry point checks before    *)
(* any byte is written; None when it is met                                *)
SimpleBindPrecondition(entry, name, password) ==
    CASE entry = "unauthenticated" /\ name = "" -> Some("EmptyUsername")
      [] entry = "authenticated" /\ password = <<>> -> Some("EmptyPassword")
      [] entry = "authenticated" /\ name = "" -> Some("EmptyUsername")
      [] OTHER -> None

BoundStateOf(entry) ==
    CASE entry = "anonymously" -> "BoundAnonymously"
      [] entry = "unauthenticated" -> "BoundUnauthenticated"
      [] entry = "authenticated" -> "BoundAuthenticated"

(* bind_simple_raw: the match on result_code *)
SimpleBindCodeResult(code, referral) ==
    CASE code = ResultCode.Success -> [ok |-> TRUE]
      [] code = ResultCode.Referral ->
            [ok |-> FALSE, err |-> IF referral THEN "Referral" ELSE "ReferralWithoutTarget"]
      [] code = ResultCode.ProtocolError -> [ok |-> FALSE, err |-> "ProtocolError"]
      [] code = ResultCode.InvalidCredentials -> [ok |-> FALSE, err |-> "InvalidCredentials"]
      [] code = ResultCode.OperationsError -> [ok |-> FALSE, err |-> "OperationsError"]
      [] code \in {ResultCode.Busy, ResultCode.Unavailable} ->
            [ok |-> FALSE, err |-> "ServerUnavailabe", code |-> code]
      [] code = ResultCode.InvalidDnSyntax -> [ok |-> FALSE, err |-> "InvalidDn"]
      [] code = ResultCode.ConfidentialityRequired ->
            [ok |-> FALSE, err |-> "ConfidentialityRequired"]
      [] code = ResultCode.InappropriateAuthentication ->
            [ok |-> FALSE, err |-> "InappropriateAuthentication"]
      [] OTHER -> [ok |-> FALSE, err |-> "Other", code |-> code]

(* impl From<MessageError> for SimpleBindError *)
SimpleBindErrorFrom(err) ==
    CASE err = "Io" -> "IoError"
      [] err = "Message" -> "MalformedResponse"
      [] err = "UnsolicitedResponse" -> "MalformedResponseInvalidId"

(* A bind that looks at the result code before the SASL credentials *)
SimpleBindResult_SaslAfterCode(ret) ==
    IF ~ret.ok THEN [ok |-> FALSE, err |-> SimpleBindErrorFrom(ret.err)]
    ELSE IF ret.op.tag # OpTag.BindResponse
         THEN [ok |-> FALSE, err |-> "MalformedResponseNotBindResponse"]
    ELSE IF ret.op.args[1] = ResultCode.Success THEN [ok |-> TRUE]
    ELSE IF ret.op.args[2] = 1
         THEN [ok |-> FALSE, err |-> "MalformedResponseIncludedSasl"]
    ELSE SimpleBindCodeResult(ret.op.args[1], ret.op.args[3] = 1)

(* bind_simple_raw: what it returns for what send_single_message returned *)
SimpleBindResult(ret) ==
    IF ~ret.ok THEN [ok |-> FALSE, err |-> SimpleBindErrorFrom(ret.err)]
    ELSE IF ret.op.tag # OpTag.BindResponse
         THEN [ok |-> FALSE, err |-> "MalformedResponseNotBindResponse"]
    ELSE IF ret.op.args[2] = 1
         THEN [ok |-> FALSE, err |-> "MalformedResponseIncludedSasl"]
    ELSE SimpleBindCodeResult(ret.op.args[1], ret.op.args[3] = 1)

(* The message ids written by the exchanges of one operation *)
LogIds(logs) == [i \in 1 .. Len(logs) |-> logs[i].id]

(* A bind that hands the connection back whatever the outcome *)
ConnAfterBind_Kept(c, ok, stream, state) ==
    IF ok THEN [c EXCEPT !.stream = stream, !.state = state] ELSE c

(* A bind takes the connection by value: on success the caller gets a new  *)
(* connection with the same stream and counter and the new state; on       *)
(* failure the connection is dropped with the operation                    *)
ConnAfterBind(c, ok, stream, state) ==
    IF ok THEN [c EXCEPT !.stream = stream, !.state = state] ELSE Dropped(c)

(* The stream is released with the connection that owns it *)
RxAfter(c, q) == IF c.held THEN q ELSE <<>>

TheStream == Stream(rx, rxFail, rxEnd)

Idle == conn.held /\ ~iter.active

(* inner_bind_simple_anonymously / _unauthenticated / _authenticated:      *)
(* every outcome [conn, st, logs, res] of one call                         *)
inner_bind_simple(c, st, entry, name, password) ==
    LET pre == SimpleBindPrecondition(entry, name, password)
    IN  IF pre # None
        THEN {[conn |-> ConnAfterBind(c, FALSE, c.stream, BoundStateOf(entry)), st |-> st,
               logs |-> <<>>, res |-> [ok |-> FALSE, err |-> pre[1]]]}
        ELSE { LET res == SimpleBindResult(o.ret)
               IN  [conn |-> ConnAfterBind(o.conn, res.ok, o.conn.stream, BoundStateOf(entry)),
                    st |-> o.st, logs |-> <<o.log>>, res |-> res]
               : o \in send_single_message(c, st, BindReplies(c.next_message_id, CodeNames)) }

(* An unsafe entry point that calls the anonymous bind whatever it is *)
unsafe_bind_simple_Anonymous(c, st, entry, name, password) ==
    inner_bind_simple(c, st, "anonymously", name, password)

(* bind_simple_anonymously / _unauthenticated / _authenticated, on streams *)
(* that are Safe                                                           *)
bind_simple(c, st, entry, name, password) == inner_bind_simple(c, st, entry, name, password)

(* unsafe_bind_simple_anonymously / _unauthenticated / _authenticated, on  *)
(* every stream                                                            *)
unsafe_bind_simple(c, st, entry, name, password) ==
    inner_bind_simple(c, st, entry, name, password)

(* The impl block of the entry point: Stream: Read + Write + Safe for the  *)
(* plain names, Stream: Read + Write for the unsafe_ ones                  *)
Available(unsafe, stream) == unsafe \/ Safe(stream)

(* The arguments an entry point takes: none, a name, a name and a password *)
EntryArguments(entry, name, password) ==
    /\ entry = "anonymously" => name = "" /\ password = <<>>
    /\ entry = "unauthenticated" => password = <<>>

Entries == {"anonymously", "unauthenticated", "authenticated"}

BindSimple ==
    /\ Idle
    /\ Len(sent) < MaxMsgs
    /\ \E entry \in Entries, unsafe \in BOOLEAN, name \in Names, password \in Passwords :
        /\ Available(unsafe, conn.stream)
        /\ EntryArguments(entry, name, password)
        /\ \E o \in (IF unsafe THEN unsafe_bind_simple(conn, TheStream, entry, name, password)
                     ELSE bind_simple(conn, TheStream, entry, name, password)) :
            /\ conn' = o.conn
            /\ rx' = RxAfter(o.conn, o.st.rx)
            /\ rxFail' = o.st.fail
            /\ rxEnd' = o.st.end
            /\ sent' = sent \o LogIds(o.logs)
            /\ xchg' = o.logs
            /\ result' = [op |-> [name |-> "bind_simple", entry |-> entry, unsafe |-> unsafe,
                                  request |-> SimpleBindRequest(name, password)]] @@ o.res
    /\ UNCHANGED <<iter, script, polls, lastRead, overlay>>

-----------------------------------------------------------------------------
(* SASL EXTERNAL bind *)

SaslExternalRequest(auth_z_id) ==
    [kind |-> "BindRequest", version |-> 3, name |-> auth_z_id,
     auth |-> [choice |-> "Sasl", mechanism |-> "EXTERNAL", credentials |-> None]]

(* sasl_external_bind / internal_sasl_external_bind: a response that is no *)
(* BindResponse is InvalidProtocolOp on native-tls and InvalidMessage on   *)
(* rustls; a BindResponse other than Success reaches unimplemented!()      *)
SaslExternalResult(stream, ret) ==
    IF ~ret.ok
    THEN [ok |-> FALSE, err |-> IF ret.err = "Io" THEN "Io"
                                ELSE IF ret.err = "Message" THEN "Decode"
                                ELSE "InvalidMessage"]
    ELSE IF ret.op.tag # OpTag.BindResponse
         THEN [ok |-> FALSE,
               err |-> IF stream = "NativeTls" THEN "InvalidProtocolOp" ELSE "InvalidMessage"]
    ELSE IF ret.op.args[1] = ResultCode.Success THEN [ok |-> TRUE]
    ELSE [ok |-> FALSE, err |-> "panic: not implemented"]

SaslExternalBind ==
    /\ Idle
    /\ Len(sent) < MaxMsgs
    /\ conn.stream \in {"NativeTls", "Rustls"}
    /\ \E auth_z_id \in Names :
        \E o \in send_single_message(conn, TheStream,
                    BindReplies(conn.next_message_id, {"Success", "InvalidCredentials"})) :
            LET res == SaslExternalResult(conn.stream, o.ret)
                c2  == ConnAfterBind(o.conn, res.ok, o.conn.stream,
                                     IF conn.stream = "NativeTls" THEN "BoundNativeTls"
                                                                  ELSE "BoundRustls")
            IN  /\ conn' = c2
                /\ rx' = RxAfter(c2, o.st.rx)
                /\ rxFail' = o.st.fail
                /\ sent' = Append(sent, o.log.id)
                /\ xchg' = <<o.log>>
                /\ rxEnd' = o.st.end
                /\ result' = [op |-> [name |-> "sasl_external_bind",
                                      request |-> SaslExternalRequest(auth_z_id)]] @@ res
    /\ UNCHANGED <<iter, script, polls, lastRead, overlay>>

-----------------------------------------------------------------------------
(* StartTLS *)

StartTlsRequest ==
    [kind |-> "ExtendedReq", request_name |-> "1.3.6.1.4.1.1466.20037", request_value |-> None]

(* start_native_tls: the match on what send_single_message returned.       *)
(* keep: the connection comes back to the caller (upgraded, or inside      *)
(* UpgradeError::Refused)                                                  *)
StartTlsResult(ret, handshakeOk) ==
    IF ~ret.ok
    THEN [ok |-> FALSE, keep |-> FALSE, err |-> IF ret.err = "Io" THEN "Io" ELSE "InvalidMessage"]
    ELSE IF ret.op.tag = OpTag.ExtendedResp /\ ret.op.args[2] = 1
         THEN IF ret.op.args[1] = ResultCode.Success
              THEN IF handshakeOk
                   THEN [ok |-> TRUE, keep |-> TRUE]
                   ELSE [ok |-> FALSE, keep |-> FALSE, err |-> "Handshake"]
              ELSE [ok |-> FALSE, keep |-> TRUE, err |-> "Refused", code |-> ret.op.args[1]]
    ELSE [ok |-> FALSE, keep |-> FALSE, err |-> "InvalidMessage"]

(* A StartTLS that consumes the connection also when the server refuses *)
ConnAfterStartTls_RefusedDropped(c, res) ==
    IF res.ok THEN [c EXCEPT !.stream = "NativeTls"] ELSE Dropped(c)

(* A StartTLS that returns a connection in the Unbound state *)
ConnAfterStartTls_Reset(c, res) ==
    IF res.ok THEN [c EXCEPT !.stream = "NativeTls", !.state = "Unbound"]
    ELSE IF res.keep THEN c
    ELSE Dropped(c)

(* start_native_tls takes the connection by value: on success the caller   *)
(* gets a connection with the TLS stream and the state and counter of the  *)
(* old one, in UpgradeError::Refused the connection itself, and otherwise  *)
(* nothing                                                                 *)
ConnAfterStartTls(c, res) ==
    IF res.ok THEN [c EXCEPT !.stream = "NativeTls"]
    ELSE IF res.keep THEN c
    ELSE Dropped(c)

StartTls ==
    /\ Idle
    /\ Len(sent) < MaxMsgs
    /\ conn.stream # "KerberosEncrypted"
    /\ \E handshakeOk \in BOOLEAN :
        \E o \in send_single_message(conn, TheStream, ExtendedReplies(conn.next_message_id)) :
            LET res == StartTlsResult(o.ret, handshakeOk)
                c2  == ConnAfterStartTls(o.conn, res)
            IN  /\ conn' = c2
                /\ rx' = RxAfter(c2, o.st.rx)
                /\ rxFail' = o.st.fail
                /\ sent' = Append(sent, o.log.id)
                /\ xchg' = <<o.log>>
                /\ rxEnd' = o.st.end
                /\ result' = [op |-> [name |-> "start_native_tls", request |-> StartTlsRequest]]
                             @@ res
    /\ UNCHANGED <<iter, script, polls, lastRead, overlay>>

-----------------------------------------------------------------------------
(* Unbind *)

UnbindRequest == [kind |-> "UnbindRequest"]

(* An unbind that reports success whatever the write did *)
UnbindResult_Silent(writeOk) == [ok |-> TRUE]

(* self.stream.write_all(&encoded).map_err(UnbindError) *)
UnbindResult(writeOk) ==
    IF writeOk THEN [ok |-> TRUE] ELSE [ok |-> FALSE, err |-> "UnbindError"]

Unbind ==
    /\ Idle
    /\ Len(sent) < MaxMsgs
    /\ \E writeOk \in BOOLEAN :
        LET g == get_and_increase_message_id(conn)
        IN  /\ conn' = Dropped(g.conn)
            /\ rx' = <<>>
            /\ sent' = Append(sent, g.id)
            /\ xchg' = <<>>
            /\ result' = [op |-> [name |-> "unbind", request |-> UnbindRequest,
                                  id |-> g.id, wrote |-> writeOk]] @@ UnbindResult(writeOk)
    /\ UNCHANGED <<rxEnd, rxFail, iter, script, polls, lastRead, overlay>>

-----------------------------------------------------------------------------
(* SASL GSSAPI (Kerberos) bind *)

(* impl LdapStream for TcpStream / native_tls::TlsStream / rustls::StreamOwned *)
IsLdapStream(stream) == stream \in {"Tcp", "NativeTls", "Rustls"}

needs_security_layer(stream) == stream = "Tcp"

(* A stream that has no Kerberos overlay *)
NoOverlay == [buffer |-> <<>>, max_buffer_size |-> 0]

(* KerberosEncryptedStream::new(stream, client_context, max_buffer_size);  *)
(* the inner stream is the connection's                                    *)
KerberosEncryptedStream(max_buffer_size) ==
    [buffer |-> <<>>, max_buffer_size |-> max_buffer_size]

(* A stream conversion that always builds the encrypting overlay *)
to_output_stream_Overlay(stream) == "KerberosEncrypted"

to_output_stream(stream) == IF stream = "Tcp" THEN "KerberosEncrypted" ELSE stream

(* A GSSAPI token: which one it is and, for the negotiation response, the  *)
(* plaintext it wraps                                                      *)
Token(kind, plain) == [kind |-> kind, plain |-> plain]

(* A BindRequest that names another SASL mechanism *)
KerberosRequest_Plain(token) ==
    [kind |-> "BindRequest", version |-> 3, name |-> "",
     auth |-> [choice |-> "Sasl", mechanism |-> "PLAIN", credentials |-> Some(token)]]

(* send_kerberos_token_msg builds BindRequest::new(3, "", Sasl(GSSAPI, token)) *)
KerberosRequest(token) ==
    [kind |-> "BindRequest", version |-> 3, name |-> "",
     auth |-> [choice |-> "Sasl", mechanism |-> "GSSAPI", credentials |-> Some(token)]]

(* What the server may answer a GSSAPI BindRequest with: a BindResponse    *)
(* for it and, from a faulty server, nothing, another operation or another *)
(* message id                                                              *)
KerberosReplies(id, faulty) ==
    {BindResponse(id, code, creds, FALSE) :
        code \in {"Success", "SaslBindInProgress"}, creds \in BOOLEAN}
    \cup {BindResponse(id, "InvalidCredentials", TRUE, FALSE)}
    \cup (IF faulty
          THEN {NoReply, ExtendedResp(id, "Success", TRUE),
                BindResponse(WrongId(id), "SaslBindInProgress", TRUE, FALSE)}
          ELSE {})

(* send_kerberos_token_msg: the match on what send_single_message returned *)
KerberosTokenResult(ret) ==
    IF ~ret.ok
    THEN [ok |-> FALSE, err |-> IF ret.err = "Io" THEN "Io"
                                ELSE IF ret.err = "Message" THEN "Decode"
                                ELSE "InvalidMessage"]
    ELSE IF ret.op.tag # OpTag.BindResponse THEN [ok |-> FALSE, err |-> "InvalidMessage"]
    ELSE [ok |-> TRUE, result_code |-> ret.op.args[1], server_sasl_creds |-> ret.op.args[2] = 1]

(* send_kerberos_token_msg(token): every outcome, [conn, st, log, resp]; *)
(* the log also keeps the request                                          *)
send_kerberos_token_msg(c, st, token, faulty) ==
    { [conn |-> o.conn, st |-> o.st,
       log |-> [request |-> KerberosRequest(token)] @@ o.log,
       resp |-> KerberosTokenResult(o.ret)] :
        o \in send_single_message(c, st, KerberosReplies(c.next_message_id, faulty)) }

RECURSIVE BitOr(_, _)
BitOr(a, b) ==
    IF a = 0 THEN b
    ELSE IF b = 0 THEN a
    ELSE (IF a % 2 = 1 \/ b % 2 = 1 THEN 1 ELSE 0) + 2 * BitOr(a \div 2, b \div 2)

(* u32::to_be_bytes *)
to_be_bytes(n) ==
    <<(n \div 16777216) % 256, (n \div 65536) % 256, (n \div 256) % 256, n % 256>>

(* u32::from_be_bytes([0, x, y, z]) *)
from_be_bytes(b) == ((b[1] * 256 + b[2]) * 256 + b[3]) * 256 + b[4]

(* What the GSSAPI context and the caller contribute to the negotiation:   *)
(* whether unwrap succeeds, the unwrapped server blob, the caller's        *)
(* max_buffer_size and whether wrap succeeds                               *)
Negotiation(unwrapOk, blob, own_max_buffer_size, wrapOk) ==
    [unwrapOk |-> unwrapOk, blob |-> blob,
     own_max_buffer_size |-> own_max_buffer_size, wrapOk |-> wrapOk]

(* The negotiations of the runs that share the connection with the other   *)
(* operations                                                              *)
Negotiations ==
    [unwrapOk : {FALSE}, blob : {<<>>}, own_max_buffer_size : {None}, wrapOk : {TRUE}]
    \cup [unwrapOk : {TRUE}, blob : {<<1, 0>>, <<0, 0, 0, 1>>},
          own_max_buffer_size : {None}, wrapOk : {TRUE}]
    \cup [unwrapOk : {TRUE}, blob : {<<1, 0, 4, 0>>, <<4, 0, 4, 0>>},
          own_max_buffer_size : {None, Some(512)}, wrapOk : {TRUE}]
    \cup [unwrapOk : {TRUE}, blob : {<<4, 0, 4, 0>>},
          own_max_buffer_size : {None}, wrapOk : {FALSE}]

(* The negotiations of a run that is only a GSSAPI bind: a blob that is    *)
(* too short or too long, every kind of offer, and buffer sizes below and  *)
(* above the caller's, the default and 24 bits                             *)
AllNegotiations ==
    {Negotiation(FALSE, <<>>, None, TRUE), Negotiation(TRUE, <<4, 0, 4, 0>>, None, FALSE)}
    \cup {Negotiation(TRUE, blob, None, TRUE) :
            blob \in {<<>>, <<4, 0, 4>>, <<4, 0, 4, 0, 0>>,
                      <<0, 0, 0, 0>>, <<0, 0, 0, 1>>, <<0, 1, 0, 0>>,
                      <<1, 0, 4, 0>>, <<4, 0, 4, 0>>, <<2, 0, 4, 0>>, <<7, 0, 0, 0>>,
                      <<4, 1, 0, 0>>, <<5, 255, 255, 255>>}}
    \cup {Negotiation(TRUE, <<4, 0, 4, 0>>, Some(512), TRUE),
          Negotiation(TRUE, <<4, 1, 0, 0>>, Some(70000), TRUE),
          Negotiation(TRUE, <<5, 255, 255, 255>>, Some(16777221), TRUE)}

(* A conversion of the unwrapped blob that takes its first four bytes *)
try_from_Prefix(blob) == IF Len(blob) < 4 THEN None ELSE Some(Take(blob, 4))

(* <[u8; 4]>::try_from(&*unwrapped) *)
try_from(blob) == IF Len(blob) # 4 THEN None ELSE Some(blob)

(* A buffer size that follows the caller alone *)
negotiated_buffer_size_Own(max_buffer_size, own_max_buffer_size) ==
    IF own_max_buffer_size = None THEN 65535 ELSE own_max_buffer_size[1]

(* (max_buffer_size as usize).min(own_max_buffer_size.unwrap_or(65535)) *)
negotiated_buffer_size(max_buffer_size, own_max_buffer_size) ==
    Min(max_buffer_size,
        IF own_max_buffer_size = None THEN 65535 ELSE own_max_buffer_size[1])

(* negotiate_security, between its two messages: from the unwrapped server *)
(* blob and the caller's own_max_buffer_size to the packet it wraps        *)
SecurityLayerResponse(stream, neg) ==
    IF ~neg.unwrapOk THEN [ok |-> FALSE, err |-> "FailedToDecryptNegotiationData"]
    ELSE IF try_from(neg.blob) = None
    THEN [ok |-> FALSE, err |-> "ServerSentInvalidNegotiationData"]
    ELSE
      LET bytes           == try_from(neg.blob)[1]
          offer_bitmask   == bytes[1]
          max_buffer_size == from_be_bytes(<<0, bytes[2], bytes[3], bytes[4]>>)
          negotiated      == negotiated_buffer_size(max_buffer_size, neg.own_max_buffer_size)
          layer_response  == IF needs_security_layer(stream) THEN 4 ELSE 1
          response_packet == BitOr(layer_response * 16777216, negotiated)
      IN  IF offer_bitmask = 0 /\ max_buffer_size # 0
          THEN [ok |-> FALSE, err |-> "NonzeroBufferSize"]
          ELSE IF BitOr(offer_bitmask, layer_response) = 0
          THEN [ok |-> FALSE, err |-> "NoValidSecurityLayerOffered"]
          ELSE IF ~neg.wrapOk
          THEN [ok |-> FALSE, err |-> "FailedToEncryptNegotiationData"]
          ELSE [ok |-> TRUE, layer_response |-> layer_response,
                negotiated_buffer_size |-> negotiated,
                packet |-> to_be_bytes(response_packet)]

KerberosOutcome(x, logs, res) == [conn |-> x.conn, st |-> x.st, logs |-> logs, res |-> res]

(* negotiate_security(kerberos_context, last_token, own_max_buffer_size):  *)
(* every outcome, [conn, st, logs, res]; run: what the context and the     *)
(* caller bring to the negotiation, and whether the server is faulty       *)
negotiate_security(c, st, logs, last_token, run) ==
    UNION {
      IF ~x.resp.ok THEN {KerberosOutcome(x, Append(logs, x.log), x.resp)}
      ELSE IF ~x.resp.server_sasl_creds
      THEN {KerberosOutcome(x, Append(logs, x.log),
                            [ok |-> FALSE, err |-> "ServerSentInvalidNegotiationData"])}
      ELSE
        LET layer == SecurityLayerResponse(c.stream, run.negotiation)
        IN  IF ~layer.ok
            THEN {KerberosOutcome(x, Append(logs, x.log), [negotiation |-> run.negotiation] @@ layer)}
            ELSE { KerberosOutcome(y, logs \o <<x.log, y.log>>,
                     [negotiation |-> run.negotiation] @@
                     (IF ~y.resp.ok THEN y.resp
                      ELSE IF y.resp.result_code = ResultCode.Success
                      THEN [ok |-> TRUE,
                            layer_response |-> layer.layer_response,
                            negotiated_buffer_size |-> layer.negotiated_buffer_size]
                      ELSE [ok |-> FALSE, err |-> "DidntAcceptBind",
                            code |-> y.resp.result_code])) :
                   y \in send_kerberos_token_msg(x.conn, x.st, Token("wrapped", layer.packet),
                                                 run.faulty) }
      : x \in send_kerberos_token_msg(c, st,
                  IF last_token = None THEN Token("empty", <<>>) ELSE last_token[1],
                  run.faulty) }

(* What one call of ctx.step can return: an error, Finished with or        *)
(* without a last token, or Continue with a ticket.  `more`: whether the   *)
(* run may still send a ticket within the bound on messages.               *)
StepOutcomes(more) ==
    {[kind |-> "Err"], [kind |-> "Finished", ticket |-> None],
     [kind |-> "Finished", ticket |-> Some(Token("final", <<>>))]}
    \cup (IF more THEN {[kind |-> "Continue", ticket |-> Some(Token("ticket", <<>>))]} ELSE {})

(* The loop of bind_kerberos_with_ctx; budget: the number of messages the  *)
(* run may still write                                                     *)
RECURSIVE kerberos_step_loop(_, _, _, _, _)
kerberos_step_loop(c, st, logs, budget, run) ==
    UNION {
      IF step.kind = "Err"
      THEN {[conn |-> c, st |-> st, logs |-> logs,
             res |-> [ok |-> FALSE, err |-> "InitializeSecurityContext"]]}
      ELSE IF step.kind = "Finished"
      THEN negotiate_security(c, st, logs, step.ticket, run)
      ELSE UNION {
             IF ~x.resp.ok THEN {KerberosOutcome(x, Append(logs, x.log), x.resp)}
             ELSE IF ~x.resp.server_sasl_creds
             THEN {KerberosOutcome(x, Append(logs, x.log),
                                   [ok |-> FALSE, err |-> "ServerSentNoCredentials"])}
             ELSE kerberos_step_loop(x.conn, x.st, Append(logs, x.log), budget - 1, run)
             : x \in send_kerberos_token_msg(c, st, step.ticket[1], run.faulty) }
      : step \in StepOutcomes(budget > 2) }

(* A check of the first response that looks at the credentials first *)
FirstResponseError_CredsFirst(resp) ==
    IF ~resp.server_sasl_creds
    THEN Some([ok |-> FALSE, err |-> "ServerSentNoCredentials"])
    ELSE IF resp.result_code # ResultCode.SaslBindInProgress
    THEN Some([ok |-> FALSE, err |-> "DidntAcceptBind", code |-> resp.result_code])
    ELSE None

(* bind_kerberos_with_ctx: what the first BindResponse ends the bind with, *)
(* if it does                                                              *)
FirstResponseError(resp) ==
    IF resp.result_code # ResultCode.SaslBindInProgress
    THEN Some([ok |-> FALSE, err |-> "DidntAcceptBind", code |-> resp.result_code])
    ELSE IF ~resp.server_sasl_creds
    THEN Some([ok |-> FALSE, err |-> "ServerSentNoCredentials"])
    ELSE None

(* bind_kerberos_with_ctx(ctx, initial_token, max_buffer_size) *)
bind_kerberos_with_ctx(c, st, budget, run) ==
    UNION {
      IF ~x.resp.ok THEN {KerberosOutcome(x, <<x.log>>, x.resp)}
      ELSE IF FirstResponseError(x.resp) # None
      THEN {KerberosOutcome(x, <<x.log>>, FirstResponseError(x.resp)[1])}
      ELSE kerberos_step_loop(x.conn, x.st, <<x.log>>, budget - 1, run)
      : x \in send_kerberos_token_msg(c, st, Token("initial", <<>>), run.faulty) }

(* bind_kerberos / bind_kerberos_with_creds: channel bindings and context  *)
(* creation come first and write nothing.  Only native-tls can fail to     *)
(* give channel bindings.                                                  *)
bind_kerberos(c, st, budget, run) ==
    (IF c.stream = "NativeTls"
     THEN {[conn |-> c, st |-> st, logs |-> <<>>,
            res |-> [ok |-> FALSE, err |-> "FailedToGetChannelBindings"]]}
     ELSE {})
    \cup {[conn |-> c, st |-> st, logs |-> <<>>,
           res |-> [ok |-> FALSE, err |-> "InitializeSecurityContext"]]}
    \cup bind_kerberos_with_ctx(c, st, budget, run)

(* One call of bind_kerberos with the given budget of messages, one of the *)
(* given negotiations and a server that is faulty or not                   *)
BindKerberosWith(budget, negotiations, faulty) ==
    /\ Idle
    /\ IsLdapStream(conn.stream)
    /\ \E neg \in negotiations :
       \E o \in bind_kerberos(conn, TheStream, budget,
                              [negotiation |-> neg, faulty |-> faulty]) :
        LET c2 == ConnAfterBind(o.conn, o.res.ok, to_output_stream(o.conn.stream),
                                "BoundKerberos")
        IN  /\ conn' = c2
            /\ rx' = RxAfter(c2, o.st.rx)
            /\ rxFail' = o.st.fail
            /\ rxEnd' = o.st.end
            /\ sent' = sent \o LogIds(o.logs)
            /\ xchg' = o.logs
            /\ result' = [op |-> [name |-> "bind_kerberos", stream |-> conn.stream]] @@ o.res
            /\ overlay' = IF o.res.ok /\ needs_security_layer(conn.stream)
                          THEN KerberosEncryptedStream(o.res.negotiated_buffer_size)
                          ELSE overlay
    /\ UNCHANGED <<iter, script, polls, lastRead>>

BindKerberos ==
    /\ Len(sent) + 3 <= MaxMsgs
    /\ BindKerberosWith(MaxMsgs - Len(sent), Negotiations, TRUE)

(* A GSSAPI bind on a fresh connection, answered with BindResponses, with  *)
(* up to MaxTickets tickets of the token loop before the negotiation       *)
BindKerberosFresh ==
    /\ sent = <<>>
    /\ BindKerberosWith(3 + MaxTickets, AllNegotiations, FALSE)

-----------------------------------------------------------------------------
(* Channel bindings of the rustls stream *)

(* "tls-server-end-point:" in ASCII *)
TlsServerEndPoint ==
    <<116, 108, 115, 45, 115, 101, 114, 118, 101, 114, 45,
      101, 110, 100, 45, 112, 111, 105, 110, 116, 58>>

(* The ASCII digit of a value below 16, lowercase *)
HexDigit(d) == IF d < 10 THEN 48 + d ELSE 87 + d

(* write!(output, "{num:x}"): a u8 in lowercase hex, as few digits as it   *)
(* needs                                                                   *)
LowerHex(num) ==
    IF num < 16 THEN <<HexDigit(num)>> ELSE <<HexDigit(num \div 16), HexDigit(num % 16)>>

(* sha2::Sha256 over a certificate: the model names a certificate by its   *)
(* digest of 32 bytes                                                      *)
Sha256(certificate) == certificate.digest

(* <rustls::StreamOwned as LdapStream>::channel_bindings: Ok(None) without *)
(* a peer certificate, else the label and the digest of the first          *)
channel_bindings(peer_certificates) ==
    IF peer_certificates = None \/ peer_certificates[1] = <<>> THEN None
    ELSE LET hash == Sha256(peer_certificates[1][1])
         IN  Some(TlsServerEndPoint \o Concat([i \in DOMAIN hash |-> LowerHex(hash[i])]))

(* Certificates whose digest is one byte value throughout but for one      *)
(* position                                                                *)
Certificates ==
    {[digest |-> [i \in 1 .. 32 |-> IF i = p THEN a ELSE b]] :
        p \in {1, 16, 32}, a \in {0, 9, 15, 16, 171, 255}, b \in {16, 200}}

(* self.conn.peer_certificates(): none, an empty chain, or a chain of one  *)
(* or two certificates                                                     *)
PeerCertificates ==
    {None, Some(<<>>)}
    \cup {Some(<<c>>) : c \in Certificates}
    \cup {Some(<<c, [digest |-> [i \in 1 .. 32 |-> 5]]>>) : c \in Certificates}

ChannelBindings ==
    /\ Idle
    /\ conn.stream = "Rustls"
    /\ \E peer_certificates \in PeerCertificates :
        result' = [op |-> [name |-> "channel_bindings",
                           peer_certificates |-> peer_certificates],
                   ok |-> TRUE, value |-> channel_bindings(peer_certificates)]
    /\ UNCHANGED <<conn, rx, rxEnd, rxFail, sent, xchg, iter, script, polls, lastRead, overlay>>

-----------------------------------------------------------------------------
(* The Kerberos overlay stream: reading *)

(* self.stream.read(&mut buf[..cap]) on the inner stream: every outcome    *)
(* one call can have into a buffer of cap bytes                            *)
ReadInto(st, cap) ==
    IF st.rx = <<>>
    THEN {[kind |-> "Ok", bytes |-> <<>>, st |-> [st EXCEPT !.end = "Eof"]]}
         \cup (IF st.end = "Open" THEN {[kind |-> "Err", bytes |-> <<>>, st |-> st]} ELSE {})
    ELSE {[kind |-> "Ok", bytes |-> Take(st.rx, n), st |-> [st EXCEPT !.rx = Drop(st.rx, n)]] :
             n \in 1 .. Min(Len(st.rx), cap)}
         \cup (IF st.fail > 0
               THEN {[kind |-> "Err", bytes |-> <<>>, st |-> [st EXCEPT !.fail = st.fail - 1]]}
               ELSE {})

(* while total_read < want { read into the rest of the buffer }: it ends   *)
(* "Full", on a read of 0 bytes ("Zero") or on a failed read ("Err")       *)
RECURSIVE read_loop(_, _, _)
read_loop(st, got, want) ==
    IF Len(got) >= want THEN {[kind |-> "Full", got |-> got, st |-> st]}
    ELSE UNION {
           IF r.kind = "Err" THEN {[kind |-> "Err", got |-> got, st |-> r.st]}
           ELSE IF r.bytes = <<>> THEN {[kind |-> "Zero", got |-> got, st |-> r.st]}
           ELSE read_loop(r.st, got \o r.bytes, want)
           : r \in ReadInto(st, want - Len(got)) }

(* client_context.wrap(true, plain): the token carries the length of the   *)
(* plaintext in front of it                                                *)
wrap(plain) == <<Len(plain)>> \o plain

(* client_context.unwrap(token): the plaintext of a token that wrap made,  *)
(* None for any other                                                      *)
unwrap(token) ==
    IF token # <<>> /\ token[1] = Len(token) - 1 THEN Some(Drop(token, 1)) ELSE None

(* A length check that lets an empty token through *)
invalid_token_length_ZeroAllowed(token_length, max_buffer_size) ==
    token_length > max_buffer_size

(* token_length == 0 || token_length > self.max_buffer_size *)
invalid_token_length(token_length, max_buffer_size) ==
    token_length = 0 \/ token_length > max_buffer_size

(* What read did on the inner stream: the length header and the token      *)
(* bytes it read, and whether it called unwrap                             *)
ReadTrace(header, token, unwrapped) ==
    [header |-> header, token |-> token, unwrapped |-> unwrapped]

(* A tail of read that empties the plaintext buffer whatever it copied *)
read_from_buffer_Clear(ov, st, buf_len, trace) ==
    LET len == Min(buf_len, Len(ov.buffer))
    IN  [ov |-> [ov EXCEPT !.buffer = <<>>], st |-> st,
         res |-> [ok |-> TRUE, n |-> len, bytes |-> Take(ov.buffer, len)] @@ trace]

(* The tail of read: copy from the plaintext buffer and drain it *)
read_from_buffer(ov, st, buf_len, trace) ==
    LET len == Min(buf_len, Len(ov.buffer))
    IN  [ov |-> [ov EXCEPT !.buffer = Drop(ov.buffer, len)], st |-> st,
         res |-> [ok |-> TRUE, n |-> len, bytes |-> Take(ov.buffer, len)] @@ trace]

(* <KerberosEncryptedStream as Read>::read(buf) with buf.len() = buf_len:  *)
(* every outcome, [ov, st, res]                                            *)
overlay_read(ov, st, buf_len) ==
    IF ov.buffer # <<>>
    THEN {read_from_buffer(ov, st, buf_len, ReadTrace(<<>>, <<>>, FALSE))}
    ELSE UNION {
      IF h.kind = "Err"
      THEN {[ov |-> ov, st |-> h.st,
             res |-> [ok |-> FALSE, err |-> "Io"] @@ ReadTrace(h.got, <<>>, FALSE)]}
      ELSE IF h.kind = "Zero"
      THEN {[ov |-> ov, st |-> h.st,
             res |-> [ok |-> TRUE, n |-> 0, bytes |-> <<>>] @@ ReadTrace(h.got, <<>>, FALSE)]}
      ELSE
        LET token_length == from_be_bytes(h.got)
        IN  IF invalid_token_length(token_length, ov.max_buffer_size)
            THEN {[ov |-> ov, st |-> h.st,
                   res |-> [ok |-> FALSE, err |-> "InvalidData"]
                           @@ ReadTrace(h.got, <<>>, FALSE)]}
            ELSE {
              IF t.kind = "Err"
              THEN [ov |-> ov, st |-> t.st,
                    res |-> [ok |-> FALSE, err |-> "Io"] @@ ReadTrace(h.got, t.got, FALSE)]
              ELSE IF t.kind = "Zero"
              THEN [ov |-> ov, st |-> t.st,
                    res |-> [ok |-> FALSE, err |-> "UnexpectedEof"]
                            @@ ReadTrace(h.got, t.got, FALSE)]
              ELSE IF unwrap(t.got) = None
              THEN [ov |-> ov, st |-> t.st,
                    res |-> [ok |-> FALSE, err |-> "Other"] @@ ReadTrace(h.got, t.got, TRUE)]
              ELSE read_from_buffer([ov EXCEPT !.buffer = unwrap(t.got)[1]], t.st, buf_len,
                                    ReadTrace(h.got, t.got, TRUE))
              : t \in read_loop(h.st, <<>>, token_length) }
      : h \in read_loop(st, <<>>, 4) }

(* The buffer lengths the caller reads with *)
BufLens == {1, 4}

(* One read on the overlay stream of a connection bound with GSSAPI *)
OverlayRead ==
    /\ Idle
    /\ conn.stream = "KerberosEncrypted"
    /\ \E buf_len \in BufLens :
        \E o \in overlay_read(overlay, TheStream, buf_len) :
            /\ overlay' = o.ov
            /\ rx' = o.st.rx
            /\ rxFail' = o.st.fail
            /\ rxEnd' = o.st.end
            /\ result' = [op |-> [name |-> "read", buf_len |-> buf_len, wire |-> rx,
                                  buffer |-> overlay.buffer]] @@ o.res
    /\ UNCHANGED <<conn, sent, xchg, iter, script, polls, lastRead>>

-----------------------------------------------------------------------------
(* The Kerberos overlay stream: writing *)

(* <KerberosEncryptedStream as Write>::write(buf): wrap, then write_all of *)
(* the length and write_all of the token; `written` is how many of the two *)
(* write_all calls succeed, `emitted` what the inner stream was given      *)
overlay_write(ov, buf, wrapOk, written) ==
    LET wrapped == wrap(buf)
        header  == to_be_bytes(Len(wrapped))
    IN  IF ~wrapOk THEN [ok |-> FALSE, err |-> "Other", emitted |-> <<>>]
        ELSE IF written = 0 THEN [ok |-> FALSE, err |-> "Io", emitted |-> <<>>]
        ELSE IF written = 1 THEN [ok |-> FALSE, err |-> "Io", emitted |-> header]
        ELSE [ok |-> TRUE, n |-> Len(buf), emitted |-> header \o wrapped]

(* The buffers the caller writes *)
WriteBufs == {<<5>>, <<5, 6>>, <<5, 6, 7>>, <<5, 6, 7, 8>>}

(* One write on the overlay stream of a connection bound with GSSAPI *)
OverlayWrite ==
    /\ Idle
    /\ conn.stream = "KerberosEncrypted"
    /\ \E buf \in WriteBufs, wrapOk \in BOOLEAN, written \in 0 .. 2 :
        result' = [op |-> [name |-> "write", buf |-> buf]]
                  @@ overlay_write(overlay, buf, wrapOk, written)
    /\ UNCHANGED <<conn, rx, rxEnd, rxFail, sent, xchg, iter, script, polls, lastRead, overlay>>

(* Entry mapping: the from_entry that derive(Entry) generates *)

(* struct AttributeField of the derive macro, without the syn::Field *)
AttributeField(attribute_name, multiple, default) ==
    [attribute_name |-> attribute_name, multiple |-> multiple, default |-> default]

(* struct Attribute { type, values } *)
Attribute(type, values) == [type |-> type, values |-> values]

(* struct RawEntry { object_name, attributes } *)
RawEntry(object_name, attributes) == [object_name |-> object_name, attributes |-> attributes]

(* FailedToGetFromEntry::MissingField / TooManyValues / FailedToParseField *)
FailedToGetFromEntry(variant, field) == [ok |-> FALSE, err |-> [variant |-> variant, field |-> field]]

(* entry.attributes.iter().find(|x| x.type == lookup_name) *)
find(attributes, lookup_name) ==
    LET hits == {i \in DOMAIN attributes : attributes[i].type = lookup_name}
    IN  IF hits = {} THEN None
        ELSE Some(attributes[CHOOSE i \in hits : \A j \in hits : i <= j])

(* <u8 as FromOctetString>::from_octet_string for a value of one byte: an  *)
(* ASCII decimal digit parses to its number, any other byte does not       *)
from_octet_string(bytes) ==
    IF Len(bytes) = 1 /\ bytes[1] \in 48 .. 57
    THEN [ok |-> TRUE, value |-> bytes[1] - 48]
    ELSE [ok |-> FALSE]

(* <Vec<u8> as FromMultipleOctetStrings>::from_multiple_octet_strings:     *)
(* values.map(T::from_octet_string).collect()                              *)
from_multiple_octet_strings(values) ==
    IF \A i \in DOMAIN values : from_octet_string(values[i]).ok
    THEN [ok |-> TRUE, value |-> [i \in DOMAIN values |-> from_octet_string(values[i]).value]]
    ELSE [ok |-> FALSE]

(* <field_type as Default>::default(): 0 for u8, the empty Vec for Vec<u8> *)
Default(data) == IF data.multiple THEN <<>> ELSE 0

(* A fallback that ignores the default flag *)
fallback_AlwaysMissing(data) == FailedToGetFromEntry("MissingField", data.attribute_name)

(* field_line: let fallback = if data.default { .. } else { .. } *)
fallback(data) ==
    IF data.default THEN [ok |-> TRUE, value |-> Default(data)]
    ELSE FailedToGetFromEntry("MissingField", data.attribute_name)

(* A single-valued line that takes the first of several values *)
single_field_line_FirstValue(data, found) ==
    IF found = None \/ found[1].values = <<>> THEN fallback(data)
    ELSE LET r == from_octet_string(found[1].values[1])
         IN  IF r.ok THEN r
             ELSE FailedToGetFromEntry("FailedToParseField", data.attribute_name)

(* field_line, the branch without `multiple`: the match on the values of   *)
(* the attribute found                                                     *)
single_field_line(data, found) ==
    IF found = None \/ found[1].values = <<>> THEN fallback(data)
    ELSE IF Len(found[1].values) = 1
    THEN LET r == from_octet_string(found[1].values[1])
         IN  IF r.ok THEN r
             ELSE FailedToGetFromEntry("FailedToParseField", data.attribute_name)
    ELSE FailedToGetFromEntry("TooManyValues", data.attribute_name)

(* field_line, the branch with `multiple` *)
multiple_field_line(data, found) ==
    IF found = None THEN fallback(data)
    ELSE LET r == from_multiple_octet_strings(found[1].values)
         IN  IF r.ok THEN r
             ELSE FailedToGetFromEntry("FailedToParseField", data.attribute_name)

(* The statement field_line generates for one field, run on an entry *)
field_line(data, entry) ==
    IF data.multiple
    THEN multiple_field_line(data, find(entry.attributes, data.attribute_name))
    ELSE single_field_line(data, find(entry.attributes, data.attribute_name))

(* The generated from_entry: the lines of the fields in order, the first   *)
(* failure returns; `lines` keeps what each line that ran came to          *)
RECURSIVE derived_from_entry(_, _, _)
derived_from_entry(fields, entry, lines) ==
    IF Len(lines) = Len(fields) THEN [ok |-> TRUE, lines |-> lines]
    ELSE LET r == field_line(fields[Len(lines) + 1], entry)
         IN  IF r.ok THEN derived_from_entry(fields, entry, Append(lines, r))
             ELSE [ok |-> FALSE, err |-> r.err, lines |-> Append(lines, r)]

(* The records of the model: one field on "cn", or a field on "cn" and one *)
(* on "mail", each single or multiple, with or without default             *)
FieldLists ==
    {<<AttributeField("cn", m, d)>> : m \in BOOLEAN, d \in BOOLEAN}
    \cup {<<AttributeField("cn", m1, d1), AttributeField("mail", m2, d2)>> :
            m1 \in BOOLEAN, d1 \in BOOLEAN, m2 \in BOOLEAN, d2 \in BOOLEAN}

(* The values an attribute may come with: none, one that parses, one that  *)
(* does not, two                                                           *)
ValueLists == {<<>>, <<<<55>>>>, <<<<120>>>>, <<<<49>>, <<50>>>>, <<<<49>>, <<120>>>>}

(* The entries of the model: each of "cn" and "mail" absent or present     *)
RawEntries ==
    {RawEntry("dc=example", <<>>)}
    \cup {RawEntry("dc=example", <<Attribute("cn", v)>>) : v \in ValueLists}
    \cup {RawEntry("dc=example", <<Attribute("mail", v)>>) : v \in {<<>>, <<<<50>>>>}}
    \cup {RawEntry("dc=example", <<Attribute("mail", v), Attribute("cn", w)>>) :
            v \in {<<>>, <<<<50>>>>}, w \in ValueLists}

(* Output::from_entry(entry) for a derived record *)
FromEntry ==
    /\ \E fields \in FieldLists, entry \in RawEntries :
        result' = [op |-> [name |-> "from_entry", fields |-> fields, entry |-> entry]]
                  @@ derived_from_entry(fields, entry, <<>>)
    /\ UNCHANGED <<conn, rx, rxEnd, rxFail, sent, xchg, iter, script, polls, lastRead, overlay>>

(* The Output type of a search: RawEntry, whose FromEntry impl keeps the   *)
(* trait's attributes(), or a derived record with its fields and possibly  *)
(* a field marked object_name                                              *)
Output(derived, fields, object_name) ==
    [derived |-> derived, fields |-> fields, object_name |-> object_name]

RawEntryOutput == Output(FALSE, <<>>, FALSE)

(* <Output as FromEntry>::attributes(): None from the trait, and           *)
(* Some([#(#attribute_names,)*].into_iter()) from the derive               *)
attributes(output) ==
    IF output.derived
    THEN Some([i \in DOMAIN output.fields |-> output.fields[i].attribute_name])
    ELSE None

(* search: the attribute list of the request *)
search_attributes(output) ==
    IF attributes(output) = None THEN <<"*">> ELSE attributes(output)[1]

(* The Output types of the model: RawEntry, records with one and two       *)
(* attribute fields, with and without a DN field, and a record whose only  *)
(* field is the DN field                                                   *)
Outputs ==
    {RawEntryOutput, Output(TRUE, <<>>, TRUE)}
    \cup {Output(TRUE, fields, dn) :
            fields \in {<<AttributeField("cn", FALSE, FALSE)>>,
                        <<AttributeField("cn", FALSE, TRUE),
                          AttributeField("mail", TRUE, FALSE)>>},
            dn \in BOOLEAN}

-----------------------------------------------------------------------------
(* Search: the request *)

NoIter == [active |-> FALSE, remainder |-> None, done |-> FALSE]

(* SearchResults::new(connection) *)
NewSearchResults == [active |-> TRUE, remainder |-> None, done |-> FALSE]

SearchRequest(attribute_list) ==
    [kind |-> "SearchRequest", size_limit |-> 0, time_limit |-> 0, types_only |-> FALSE,
     attributes |-> attribute_list]

(* search(base, scope, deref_aliases, filter): writes the request and      *)
(* returns the iterator without reading; `answers` are the PDU sequences   *)
(* the server may send in answer                                           *)
Search(answers, outputs) ==
    /\ Idle
    /\ Len(sent) < MaxMsgs
    /\ \E writeOk \in BOOLEAN, answer \in answers, output \in outputs :
        LET g  == get_and_increase_message_id(conn)
            op == [name |-> "search", output |-> output, id |-> g.id,
                   request |-> SearchRequest(search_attributes(output))]
        IN  /\ conn' = g.conn
            /\ sent' = Append(sent, g.id)
            /\ xchg' = <<>>
            /\ IF writeOk
               THEN /\ iter' = NewSearchResults
                    /\ script' = answer
                    /\ rx' = rx \o Concat([i \in 1 .. Len(answer) |->
                                             Encode(LdapMessage(g.id, answer[i]))])
                    /\ result' = [op |-> op, ok |-> TRUE]
               ELSE /\ UNCHANGED <<iter, script, rx>>
                    /\ result' = [op |-> op, ok |-> FALSE, err |-> "Io"]
            /\ polls' = <<>>
            /\ lastRead' = FALSE
    /\ UNCHANGED <<rxEnd, rxFail, overlay>>

(* The iterator is dropped: the borrow of the connection ends *)
DropSearch ==
    /\ conn.held
    /\ iter.active
    /\ iter' = NoIter
    /\ script' = <<>>
    /\ polls' = <<>>
    /\ lastRead' = FALSE
    /\ UNCHANGED <<conn, rx, rxEnd, rxFail, sent, xchg, result, overlay>>

-----------------------------------------------------------------------------
(* Search: the iterator *)

(* What next returns: None, Some(Ok(record)) or Some(Err(error)) *)
NoneItem == [kind |-> "None"]
OkItem(e) == [kind |-> "Ok", entry |-> e]
ErrItem(err) == [kind |-> "Err", err |-> err]

(* Output::from_entry(entry) for the record type of this model: the entry  *)
(* byte stands for the RawEntry; entries 1 and 2 hold every attribute the  *)
(* record needs, 3 lacks one, 4 has a value that does not parse, 5 has two *)
(* values in a single-valued field                                         *)
from_entry(e) ==
    CASE e = 3 -> [ok |-> FALSE, err |-> "MissingField"]
      [] e = 4 -> [ok |-> FALSE, err |-> "FailedToParseField"]
      [] e = 5 -> [ok |-> FALSE, err |-> "TooManyValues"]
      [] OTHER -> [ok |-> TRUE, entry |-> e]

(* impl From<FailedToGetFromEntry> for SearchResultError *)
SearchResultErrorFrom(err) ==
    CASE err = "MissingField" -> "MissingAttributeValue"
      [] err = "FailedToParseField" -> "FailedToParseField"
      [] err = "TooManyValues" -> "TooManyValuesInScalarField"

(* Some(Output::from_entry(entry).map_err(Into::into)) *)
EntryItem(e) ==
    LET r == from_entry(e)
    IN  IF r.ok THEN OkItem(r.entry) ELSE ErrItem(SearchResultErrorFrom(r.err))

(* next: the match on the result_code of a SearchResultDone *)
DoneItem(code) ==
    CASE code = ResultCode.Success -> NoneItem
      [] code = ResultCode.NoSuchObject -> ErrItem("NoSuchObject")
      [] code = ResultCode.OperationsError -> ErrItem("OperationsError")
      [] OTHER -> [kind |-> "Err", err |-> "Other", result_code |-> code]

(* An iterator that never looks at its done flag *)
AlreadyDone_Never(it) == FALSE

(* next: `if self.done { return None; }` *)
AlreadyDone(it) == it.done

(* An iterator that forgets the bytes after the frame it decoded *)
StoreRemainder_Lost(remainder) == Some(<<>>)

(* next: after a successful decode the bytes after the frame replace       *)
(* self.remainder                                                          *)
StoreRemainder(remainder) == Some(remainder)

(* An iterator that ends on the first entry that fails to map *)
DoneAfterEntry_OnError(it, item) == it.done \/ item.kind = "Err"

(* next: self.done after a SearchResultEntry was mapped (it is not touched) *)
DoneAfterEntry(it, item) == it.done

(* An iterator that ends only on a successful SearchResultDone *)
DoneAfterDone_OnSuccess(it, code) == it.done \/ code = ResultCode.Success

(* next: self.done = true on every SearchResultDone *)
DoneAfterDone(it, code) == TRUE

(* An iterator that ends on a protocol op it does not expect *)
DoneAfterInvalid_Set(it) == TRUE

(* next: self.done after `po => return Some(Err(InvalidLdapMessage(po)))`  *)
(* (it is not touched)                                                     *)
DoneAfterInvalid(it) == it.done

(* next: `ProtocolOp::SearchResRef(_) => continue` re-enters the loop with *)
(* the buffer as buf.clear() left it                                       *)
BufAfterReference(remainder) == <<>>

PollOutcome(item, it, st, read) == [item |-> item, iter |-> it, st |-> st, read |-> read]

(* The loop of next from one pass on: buf is the local buffer, it the      *)
(* iterator, st the stream, read whether the stream was read so far.       *)
(* Every outcome [item, iter, st, read] over what the reads return.        *)
RECURSIVE next_loop(_, _, _, _)
next_loop(buf, it, st, read) ==
    LET d == IF buf = <<>> THEN [status |-> "Incomplete"] ELSE DecodeWithRemainder(buf)
    IN  IF d.status = "Ok"
        THEN LET op  == d.message.protocol_op
                 it1 == [it EXCEPT !.remainder = StoreRemainder(d.remainder)]
             IN  CASE op.tag = OpTag.SearchResEntry ->
                        LET item == EntryItem(op.args[1])
                        IN  {PollOutcome(item, [it1 EXCEPT !.done = DoneAfterEntry(it1, item)],
                                         st, read)}
                   [] op.tag = OpTag.SearchResDone ->
                        {PollOutcome(DoneItem(op.args[1]),
                                     [it1 EXCEPT !.done = DoneAfterDone(it1, op.args[1])],
                                     st, read)}
                   [] op.tag = OpTag.SearchResRef ->
                        next_loop(BufAfterReference(d.remainder), it1, st, read)
                   [] OTHER ->
                        {PollOutcome([kind |-> "Err", err |-> "InvalidLdapMessage", op |-> op],
                                     [it1 EXCEPT !.done = DoneAfterInvalid(it1)], st, read)}
        ELSE IF d.status = "Error"
        THEN {PollOutcome(ErrItem("MalformedLdapMessage"), it, st, read)}
        ELSE UNION {
               IF r.kind = "Err" THEN {PollOutcome(ErrItem("Io"), it, r.st, TRUE)}
               ELSE IF r.bytes = <<>>
               THEN {PollOutcome(ErrItem("Io(ConnectionReset)"), it, r.st, TRUE)}
               ELSE next_loop(buf \o r.bytes, it, r.st, TRUE)
               : r \in ReadOutcomes(st) }

(* SearchResults::next *)
next(it, st) ==
    IF AlreadyDone(it)
    THEN {PollOutcome(NoneItem, it, st, FALSE)}
    ELSE next_loop(IF it.remainder = None THEN <<>> ELSE it.remainder[1], it, st, FALSE)

Poll ==
    /\ conn.held
    /\ iter.active
    /\ Len(polls) < MaxPolls
    /\ \E o \in next(iter, TheStream) :
        /\ iter' = o.iter
        /\ rx' = o.st.rx
        /\ rxFail' = o.st.fail
        /\ rxEnd' = o.st.end
        /\ polls' = Append(polls, o.item)
        /\ lastRead' = o.read
    /\ UNCHANGED <<conn, sent, xchg, result, script, overlay>>

(* What the server may send in answer to a search: up to MaxPdus entries,  *)
(* references and messages of another kind, then possibly the              *)
(* SearchResultDone                                                        *)
Entry(e) == Op(OpTag.SearchResEntry, <<e>>)
Reference == Op(OpTag.SearchResRef, <<>>)
Done(code) == Op(OpTag.SearchResDone, <<ResultCode[code]>>)
NotASearchOp == Op(OpTag.ExtendedResp, <<ResultCode.Success, 0>>)

ScriptOps == {Entry(e) : e \in 1 .. 3} \cup {Reference, NotASearchOp}

DoneCodes ==
    {"Success", "NoSuchObject", "OperationsError", "InsufficientAccessRights",
     "TimeLimitExceeded", "SizeLimitExceeded", "Busy"}

Answers ==
    LET heads == UNION {[1 .. n -> ScriptOps] : n \in 0 .. MaxPdus}
    IN  heads \cup {Append(h, Done(code)) : h \in heads, code \in DoneCodes}

-----------------------------------------------------------------------------
(* The connection-level specification: binds, StartTLS, search requests    *)
(* and unbind on one connection                                            *)

NoResult == [op |-> [name |-> "connect"], ok |-> TRUE]

(* connect / connect_native_tls / new_unbound give an Unbound connection   *)
(* with counter 1; connect_rustls gives counter 1 and state BoundRustls    *)
InitConns ==
    {new_unbound(k) : k \in {"Tcp", "NativeTls", "Rustls"}}
    \cup {[new_unbound("Rustls") EXCEPT !.state = "BoundRustls"]}

Init ==
    /\ conn \in InitConns
    /\ rx = <<>>
    /\ rxEnd = "Open"
    /\ rxFail = 0
    /\ sent = <<>>
    /\ xchg = <<>>
    /\ result = NoResult
    /\ iter = NoIter
    /\ script = <<>>
    /\ polls = <<>>
    /\ lastRead = FALSE
    /\ overlay = NoOverlay

Next ==
    \/ BindSimple
    \/ SaslExternalBind
    \/ BindKerberos
    \/ StartTls
    \/ Search({<<>>}, {RawEntryOutput})
    \/ DropSearch
    \/ Unbind

Spec == Init /\ [][Next]_vars

-----------------------------------------------------------------------------
(* The search specification: one search on a newly constructed connection, *)
(* polled to its end, over every grouping of the answer into reads         *)

InitSearch ==
    /\ conn = new_unbound("Tcp")
    /\ rx = <<>>
    /\ rxEnd = "Open"
    /\ rxFail = 0
    /\ sent = <<>>
    /\ xchg = <<>>
    /\ result = NoResult
    /\ iter = NoIter
    /\ script = <<>>
    /\ polls = <<>>
    /\ lastRead = FALSE
    /\ overlay = NoOverlay

FirstSearch == sent = <<>> /\ Search(Answers, {RawEntryOutput})

NextSearch == FirstSearch \/ Poll

SpecSearch == InitSearch /\ [][NextSearch]_vars

(* One search polled over a stream whose reads may fail once while bytes   *)
(* of the answer are still to come                                         *)
InitFailing ==
    /\ conn = new_unbound("Tcp")
    /\ rx = <<>>
    /\ rxEnd = "Open"
    /\ rxFail = 1
    /\ sent = <<>>
    /\ xchg = <<>>
    /\ result = NoResult
    /\ iter = NoIter
    /\ script = <<>>
    /\ polls = <<>>
    /\ lastRead = FALSE
    /\ overlay = NoOverlay

FailingAnswers ==
    {<<Entry(1)>>, <<Entry(1), Entry(2)>>, <<Entry(3), Entry(1)>>,
     <<Entry(1), Done("Success")>>, <<NotASearchOp, Entry(1)>>}

SearchFailing == sent = <<>> /\ Search(FailingAnswers, {RawEntryOutput})

SpecFailing == InitFailing /\ [][SearchFailing \/ Poll]_vars

-----------------------------------------------------------------------------
(* The simple-bind specification: simple binds, one after the other, on a  *)
(* newly constructed connection                                            *)

NextBind == BindSimple \/ Unbind

SpecBind == Init /\ [][NextBind]_vars

(* One GSSAPI bind on a fresh connection *)
NextKerberos == BindKerberosFresh

SpecKerberos == Init /\ [][NextKerberos]_vars

(* Reads on the overlay stream of a connection that a GSSAPI bind over TCP *)
(* returned: the frames the server has sent, whole or cut short, with      *)
(* lengths of 0, within and beyond the negotiated maximum                  *)
Wires ==
    {<<>>, <<0, 0>>,
     to_be_bytes(0) \o <<9>>,
     to_be_bytes(2) \o wrap(<<5>>),
     to_be_bytes(3) \o wrap(<<5, 6>>),
     to_be_bytes(3) \o <<2, 5>>,
     to_be_bytes(2) \o <<9, 9>>,
     to_be_bytes(16777216) \o <<1>>,
     to_be_bytes(2) \o wrap(<<5>>) \o to_be_bytes(3) \o wrap(<<6, 7>>),
     to_be_bytes(1) \o wrap(<<>>) \o to_be_bytes(2) \o wrap(<<8>>)}

InitOverlay ==
    /\ conn = [new_unbound("Tcp") EXCEPT !.stream = "KerberosEncrypted",
                                        !.state = "BoundKerberos", !.next_message_id = 4]
    /\ overlay \in {KerberosEncryptedStream(m) : m \in {2, 3}}
    /\ rx \in Wires
    /\ rxEnd \in {"Open", "Eof"}
    /\ rxFail \in {0, 1}
    /\ sent = <<1, 2, 3>>
    /\ xchg = <<>>
    /\ result = NoResult
    /\ iter = NoIter
    /\ script = <<>>
    /\ polls = <<>>
    /\ lastRead = FALSE

NextOverlay == OverlayRead \/ OverlayWrite

SpecOverlay == InitOverlay /\ [][NextOverlay]_vars

(* Searches whose iterator may be dropped before the answer was read, and *)
(* the searches and simple binds that follow on the same connection        *)
StaleAnswers ==
    {<<>>, <<Entry(1)>>, <<Entry(1), Done("Success")>>, <<Entry(2), Done("NoSuchObject")>>}

SearchStale == Search(StaleAnswers, {RawEntryOutput})

SpecStale == InitSearch /\ [][SearchStale \/ DropSearch \/ Poll \/ BindSimple]_vars

(* One search polled for ever by a caller that looks at the item of each  *)
(* poll and keeps none; some of the answers have a PDU that does not       *)
(* decode                                                                  *)
BadEntry == Op(OpTag.SearchResEntry, <<1, 2>>)

LiveAnswers ==
    {<<>>, <<Entry(1)>>, <<Entry(1), Done("Success")>>, <<Entry(2), Entry(1)>>,
     <<Entry(1), Entry(2), Done("Success")>>, <<Entry(3), Done("OperationsError")>>,
     <<NotASearchOp, Entry(1)>>, <<Reference, Entry(1), Done("Success")>>,
     <<Done("NoSuchObject")>>, <<BadEntry>>, <<Entry(1), BadEntry>>}

SearchLive == sent = <<>> /\ Search(LiveAnswers, {RawEntryOutput})

(* SearchResults::next called in a loop: `polls` holds the last item only  *)
PollLast ==
    /\ conn.held
    /\ iter.active
    /\ \E o \in next(iter, TheStream) :
        /\ iter' = o.iter
        /\ rx' = o.st.rx
        /\ rxFail' = o.st.fail
        /\ rxEnd' = o.st.end
        /\ polls' = <<o.item>>
        /\ lastRead' = o.read
    /\ UNCHANGED <<conn, sent, xchg, result, script, overlay>>

SpecLive == InitSearch /\ [][SearchLive \/ PollLast]_vars /\ WF_vars(PollLast)

(* The mapping of entries to derived records *)
NextMapping == FromEntry

SpecMapping == InitSearch /\ [][NextMapping]_vars

(* Searches for every Output type, each iterator dropped before the next   *)
(* search                                                                  *)
SearchAny == Search({<<>>}, Outputs)

NextRequest == SearchAny \/ DropSearch

SpecRequest == Init /\ [][NextRequest]_vars

(* The channel bindings of rustls connections *)
SpecChannel == Init /\ [][ChannelBindings]_vars

-----------------------------------------------------------------------------
(* Properties of the transport and the binds, stated over Spec *)

BindNames == {"bind_simple", "sasl_external_bind", "bind_kerberos"}

(* C1: the message ids written to the stream form a strictly increasing    *)
(* sequence whose first element is 1, and a connection the caller holds,   *)
(* whatever bind-state transitions and stream replacements it has been     *)
(* through, carries a counter above every id written so far                *)
C1_MessageIdsIncrease ==
    /\ sent # <<>> => sent[1] = 1
    /\ \A i, j \in 1 .. Len(sent) : i < j => sent[i] < sent[j]
    /\ conn.held => \A i \in 1 .. Len(sent) : sent[i] < conn.next_message_id

(* C1: a StartTLS that replaced the stream or a bind that changed the      *)
(* state, and a search written after it                                    *)
C1_Witness ==
    /\ conn.held
    /\ conn.state \in {"BoundAnonymously", "BoundNativeTls"}
    /\ iter.active
    /\ sent = <<1, 2, 3>>

(* C2: send_single_message returns a protocol op only when the decoded     *)
(* response's message id equals the id assigned to the request it wrote    *)
C2_ResponseIdMatches ==
    \A i \in 1 .. Len(xchg) :
        xchg[i].ret.ok => xchg[i].response_id = Some(xchg[i].id)

(* C3: when the one response PDU the server sent reaches the reads in      *)
(* parts, send_single_message returns the protocol op it returns when the  *)
(* PDU arrives whole, never an error                                       *)
C3_SplitResponseIsReassembled ==
    \A i \in 1 .. Len(xchg) :
        (xchg[i].split /\ Decode(xchg[i].reply).status = "Ok") =>
            xchg[i].ret = [ok |-> TRUE, op |-> Decode(xchg[i].reply).message.protocol_op]

FailedBind == result.op.name \in BindNames /\ ~result.ok

(* C10: after a failed bind (simple, SASL EXTERNAL or Kerberos, whatever   *)
(* the failure) the caller no longer holds the connection and the stream   *)
(* is released, and on a connection that is not held no message is sent    *)
C10_FailedBindConsumesConnection ==
    /\ [](FailedBind => ~conn.held /\ rx = <<>>)
    /\ [][~conn.held => UNCHANGED <<conn, sent>>]_vars

(* C10: a bind refused by the server after an earlier operation succeeded  *)
C10_Witness ==
    /\ FailedBind
    /\ result.err = "InvalidCredentials"
    /\ Len(sent) = 2
    /\ ~conn.held

(* A step of start_native_tls: the request was written and the result is   *)
(* that of a StartTLS                                                      *)
StartTlsStep == result'.op.name = "start_native_tls" /\ Len(sent') = Len(sent) + 1

(* The response a StartTLS step decoded is an ExtendedResponse with a      *)
(* result code other than Success                                          *)
StartTlsAnsweredNonSuccess ==
    /\ xchg'[1].ret.ok
    /\ xchg'[1].ret.op.tag = OpTag.ExtendedResp
    /\ xchg'[1].ret.op.args[1] # ResultCode.Success

(* The caller has the connection as it was, the counter past the request *)
StartTlsReturnsConnection ==
    /\ ~result'.ok
    /\ result'.err = "Refused"
    /\ conn' = [conn EXCEPT !.next_message_id = conn.next_message_id + 1]

(* C11 as stated: whenever the server answers the StartTLS request with a  *)
(* result code other than Success, the error holds the original            *)
(* connection: same stream, same bind state, counter after the request     *)
C11_NonSuccessReturnsConnection ==
    [][(StartTlsStep /\ StartTlsAnsweredNonSuccess) => StartTlsReturnsConnection]_vars

(* C11 amended: whenever the server answers the StartTLS request with an   *)
(* ExtendedResponse that echoes the StartTLS OID and has a result code     *)
(* other than Success, the error holds the original connection: same       *)
(* stream, same bind state, counter after the request                      *)
C11_RefusalReturnsConnection ==
    [][(StartTlsStep /\ StartTlsAnsweredNonSuccess /\ xchg'[1].ret.op.args[2] = 1)
         => StartTlsReturnsConnection]_vars

(* C11: a StartTLS refused on a connection that was bound before *)
C11_Witness ==
    /\ result.op.name = "start_native_tls"
    /\ ~result.ok
    /\ result.err = "Refused"
    /\ conn = [held |-> TRUE, stream |-> "Tcp", next_message_id |-> 3,
               state |-> "BoundAnonymously"]

(* C12: a successful StartTLS changes only the stream (the bind state      *)
(* stays, the counter is the old one after the request), and a StartTLS    *)
(* that fails by I/O error, by a response that is no ExtendedResponse      *)
(* echoing the OID, or in the TLS handshake leaves the caller without the  *)
(* connection                                                              *)
C12_StartTlsFrame ==
    [][StartTlsStep =>
         /\ result'.ok =>
              conn' = [conn EXCEPT !.stream = "NativeTls",
                                   !.next_message_id = conn.next_message_id + 1]
         /\ (~result'.ok /\ result'.err \in {"Io", "InvalidMessage", "Handshake"}) =>
              ~conn'.held]_vars

(* C12: a StartTLS that succeeded on a plain connection bound before *)
C12_Witness ==
    /\ result.op.name = "start_native_tls"
    /\ result.ok
    /\ xchg[1].id = 2
    /\ conn = [held |-> TRUE, stream |-> "NativeTls", next_message_id |-> 3,
               state |-> "BoundAnonymously"]

(* C24: a SearchRequest or an UnbindRequest is written only on a           *)
(* connection in one of the Bound states, never on one that is Unbound     *)
C24_SearchAndUnbindNeedBind ==
    (result.op.name \in {"search", "unbind"} /\ result.ok) => conn.state # "Unbound"

(* The typed errors of sasl_external_bind *)
SaslExternalBindErrors == {"Io", "Decode", "InvalidMessage", "InvalidProtocolOp"}

(* C25: a SASL EXTERNAL bind answered with a BindResponse whose code is    *)
(* not Success returns one of its typed errors to the caller               *)
C25_SaslExternalTypedError ==
    (/\ result.op.name = "sasl_external_bind"
     /\ xchg[1].ret.ok
     /\ xchg[1].ret.op.tag = OpTag.BindResponse
     /\ xchg[1].ret.op.args[1] # ResultCode.Success)
    => (~result.ok /\ result.err \in SaslExternalBindErrors)

-----------------------------------------------------------------------------
(* Properties of the simple bind, stated over SpecBind *)

(* The error variant of the result codes that have one of their own *)
OwnVariant ==
    [ProtocolError |-> "ProtocolError", InvalidCredentials |-> "InvalidCredentials",
     OperationsError |-> "OperationsError", InvalidDnSyntax |-> "InvalidDn",
     ConfidentialityRequired |-> "ConfidentialityRequired",
     InappropriateAuthentication |-> "InappropriateAuthentication"]

BindSimpleStep == result'.op.name = "bind_simple" /\ conn' # conn

(* The row of the entry point: which names and passwords it sends *)
EntryRow(entry, request) ==
    /\ request.auth.choice = "Simple"
    /\ CASE entry = "anonymously" -> request.name = "" /\ request.auth.password = <<>>
         [] entry = "unauthenticated" -> request.name # "" /\ request.auth.password = <<>>
         [] entry = "authenticated" -> request.name # "" /\ request.auth.password # <<>>

(* C14: a simple bind either writes one BindRequest of version 3 that      *)
(* satisfies the row of its entry point, or, when a required name or       *)
(* password is empty, returns EmptyUsername or EmptyPassword, writes       *)
(* nothing and leaves the message-id counter where it was                  *)
C14_BindRequestRow ==
    [][BindSimpleStep =>
         LET request == result'.op.request
         IN  IF EntryRow(result'.op.entry, request)
             THEN /\ request.version = 3
                  /\ sent' = Append(sent, conn.next_message_id)
                  /\ Len(xchg') = 1
             ELSE /\ ~result'.ok
                  /\ result'.err \in {"EmptyUsername", "EmptyPassword"}
                  /\ sent' = sent
                  /\ xchg' = <<>>
                  /\ conn'.next_message_id = conn.next_message_id]_vars

(* C14: after a bind that was written, an authenticated bind with an empty *)
(* password                                                                *)
C14_Witness ==
    /\ result.op.name = "bind_simple"
    /\ result.op.entry = "authenticated"
    /\ ~result.ok
    /\ result.err = "EmptyPassword"
    /\ sent = <<1>>
    /\ conn.next_message_id = 2

UnbindStep == result'.op.name = "unbind" /\ conn' # conn

(* C26: unbind writes one UnbindRequest with the next message id, reads    *)
(* nothing from the stream, consumes the connection whether the write      *)
(* succeeds or not, and returns an error exactly when the write failed     *)
C26_UnbindWritesOnce ==
    [][UnbindStep =>
         /\ sent' = Append(sent, conn.next_message_id)
         /\ result'.op.request = UnbindRequest
         /\ result'.op.id = conn.next_message_id
         /\ xchg' = <<>>
         /\ rxEnd' = rxEnd /\ rxFail' = rxFail
         /\ ~conn'.held
         /\ result'.ok <=> result'.op.wrote
         /\ ~result'.ok => result'.err = "UnbindError"]_vars

(* C26: an unbind after a bind whose write failed *)
C26_Witness ==
    /\ result.op.name = "unbind"
    /\ ~result.op.wrote
    /\ ~result.ok
    /\ ~conn.held
    /\ conn.state = "BoundAuthenticated"
    /\ Len(sent) = 2

-----------------------------------------------------------------------------
(* Properties of the GSSAPI bind, stated over SpecKerberos *)

KerberosRan == result.op.name = "bind_kerberos"

(* The token of the i-th BindRequest of the bind *)
TokenAt(i) == xchg[i].request.auth.credentials[1]

(* The BindRequests that carry the wrapped negotiation response *)
WrappedRequests == {i \in 1 .. Len(xchg) : TokenAt(i).kind = "wrapped"}

(* The plaintext of the negotiation response that was sent *)
SentPlaintext == TokenAt(Len(xchg)).plain

(* The bind got as far as unwrapping a negotiation blob *)
Negotiated == KerberosRan /\ "negotiation" \in DOMAIN result

(* The i-th exchange was answered with a BindResponse *)
AnsweredAt(i) == xchg[i].ret.ok /\ xchg[i].ret.op.tag = OpTag.BindResponse

CodeAt(i) == xchg[i].ret.op.args[1]

CredsAt(i) == xchg[i].ret.op.args[2] = 1

ServerMax(blob) == from_be_bytes(<<0, blob[2], blob[3], blob[4]>>)

CallerMax(own) == IF own = None THEN 65535 ELSE own[1]

OwnChoice(stream) == IF stream = "Tcp" THEN 4 ELSE 1

RECURSIVE BitAnd(_, _)
BitAnd(a, b) ==
    IF a = 0 \/ b = 0 THEN 0
    ELSE (IF a % 2 = 1 /\ b % 2 = 1 THEN 1 ELSE 0) + 2 * BitAnd(a \div 2, b \div 2)

FailedWith(err) == ~result.ok /\ result.err = err

(* The BindRequests that carry a ticket of the token loop: one for each    *)
(* step of the context that signalled continue                             *)
TicketRequests == {i \in 1 .. Len(xchg) : TokenAt(i).kind = "ticket"}

(* C32: the BindRequests of a GSSAPI bind have the mechanism "GSSAPI" and  *)
(* an empty name, consecutive message ids, and each is written after the   *)
(* response to the one before was read; they are the initial token, the    *)
(* tickets of the steps that signalled continue, the final token (empty    *)
(* when the context gave none) and the wrapped negotiation response, in    *)
(* this order: n + 3 of them in a bind that succeeds after n tickets       *)
C32_TokenOrder ==
    (KerberosRan /\ xchg # <<>>) =>
        /\ \A i \in 1 .. Len(xchg) :
             /\ xchg[i].request.kind = "BindRequest"
             /\ xchg[i].request.name = ""
             /\ xchg[i].request.auth.choice = "Sasl"
             /\ xchg[i].request.auth.mechanism = "GSSAPI"
             /\ xchg[i].id = xchg[1].id + i - 1
             /\ i < Len(xchg) => AnsweredAt(i)
        /\ TokenAt(1).kind = "initial"
        /\ \A i \in 2 .. Len(xchg) :
             /\ TokenAt(i).kind \in {"ticket", "final", "empty", "wrapped"}
             /\ TokenAt(i).kind \in {"ticket", "final", "empty"}
                  => TokenAt(i - 1).kind \in {"initial", "ticket"}
             /\ TokenAt(i).kind = "wrapped" => TokenAt(i - 1).kind \in {"final", "empty"}
             /\ TokenAt(i).kind = "empty" => TokenAt(i).plain = <<>>
        /\ WrappedRequests \subseteq {Len(xchg)}
        /\ result.ok => /\ WrappedRequests = {Len(xchg)}
                        /\ Len(xchg) = Cardinality(TicketRequests) + 3

(* C32: a bind that succeeded after one ticket and a context that gave no  *)
(* final token: four BindRequests                                          *)
C32_Witness ==
    /\ KerberosRan
    /\ result.ok
    /\ Len(xchg) = 4
    /\ TicketRequests = {2}
    /\ TokenAt(3).kind = "empty"
    /\ TokenAt(4).kind = "wrapped"

(* C36: a GSSAPI bind succeeds only if every BindResponse before the last  *)
(* one (to the initial token, to each ticket and to the final token) had   *)
(* the result code saslBindInProgress and the response to the wrapped      *)
(* negotiation message had Success                                         *)
C36_SuccessNeedsInProgress ==
    (KerberosRan /\ result.ok) =>
        /\ \A i \in 1 .. Len(xchg) - 1 : CodeAt(i) = ResultCode.SaslBindInProgress
        /\ CodeAt(Len(xchg)) = ResultCode.Success

(* C16: the negotiation response that is sent wraps four bytes: the layer, *)
(* 0x04 on a TCP stream and 0x01 on a TLS stream, then the smaller of the  *)
(* server's and the caller's (default 65535) buffer size in 24 bits, which *)
(* leaves the layer octet as it is                                         *)
C16_NegotiationPlaintext ==
    (KerberosRan /\ WrappedRequests # {}) =>
        LET p == SentPlaintext
            n == result.negotiation
        IN  /\ Len(p) = 4
            /\ p[1] = (IF result.op.stream = "Tcp" THEN 4 ELSE 1)
            /\ result.op.stream \in {"Tcp", "NativeTls", "Rustls"}
            /\ from_be_bytes(<<0, p[2], p[3], p[4]>>)
                 = Min(ServerMax(n.blob), CallerMax(n.own_max_buffer_size))

(* C16: on TCP the server allows 0xFFFFFF, the caller more than 24 bits,   *)
(* and the response sent is 04 FF FF FF                                    *)
C16_Witness ==
    /\ KerberosRan
    /\ WrappedRequests # {}
    /\ result.op.stream = "Tcp"
    /\ result.negotiation.own_max_buffer_size = Some(16777221)
    /\ SentPlaintext = <<4, 255, 255, 255>>

(* C17: when the server's offer and the client's choice have no bit in     *)
(* common the bind fails with NoValidSecurityLayerOffered and no           *)
(* negotiation response is sent                                            *)
C17_NoCommonLayerFails ==
    (/\ Negotiated
     /\ result.negotiation.unwrapOk
     /\ Len(result.negotiation.blob) = 4
     /\ ~(result.negotiation.blob[1] = 0 /\ ServerMax(result.negotiation.blob) # 0)
     /\ BitAnd(result.negotiation.blob[1], OwnChoice(result.op.stream)) = 0)
    => (FailedWith("NoValidSecurityLayerOffered") /\ WrappedRequests = {})

(* C18: an unwrapped blob that is not four bytes long, or a response       *)
(* without serverSaslCreds at the negotiation, fails the bind with         *)
(* ServerSentInvalidNegotiationData; an offer of 0 with a buffer size      *)
(* other than 0 fails it with NonzeroBufferSize; in each case before a     *)
(* negotiation response is sent                                            *)
C18_InvalidNegotiationData ==
    /\ (Negotiated /\ result.negotiation.unwrapOk /\ Len(result.negotiation.blob) # 4)
         => (FailedWith("ServerSentInvalidNegotiationData") /\ WrappedRequests = {})
    /\ (/\ KerberosRan
        /\ xchg # <<>>
        /\ TokenAt(Len(xchg)).kind \in {"empty", "final"}
        /\ AnsweredAt(Len(xchg))
        /\ ~CredsAt(Len(xchg)))
         => FailedWith("ServerSentInvalidNegotiationData")
    /\ (/\ Negotiated
        /\ result.negotiation.unwrapOk
        /\ Len(result.negotiation.blob) = 4
        /\ result.negotiation.blob[1] = 0
        /\ ServerMax(result.negotiation.blob) # 0)
         => (FailedWith("NonzeroBufferSize") /\ WrappedRequests = {})

(* C18: the context unwrapped five bytes and the bind failed *)
C18_Witness ==
    /\ Negotiated
    /\ result.negotiation.blob = <<4, 0, 4, 0, 0>>
    /\ FailedWith("ServerSentInvalidNegotiationData")
    /\ Len(xchg) = 2

(* C19: a first BindResponse with a code other than saslBindInProgress     *)
(* ends the bind with DidntAcceptBind and that code after the one exchange *)
(* with the initial token, before any step of the context; a response of   *)
(* the token loop, the first or a later one, without serverSaslCreds ends  *)
(* it with ServerSentNoCredentials                                         *)
C19_TokenLoopResponses ==
    (KerberosRan /\ xchg # <<>>) =>
        /\ (AnsweredAt(1) /\ CodeAt(1) # ResultCode.SaslBindInProgress)
             => /\ FailedWith("DidntAcceptBind")
                /\ result.code = CodeAt(1)
                /\ Len(xchg) = 1
                /\ TokenAt(1).kind = "initial"
        /\ \A i \in 1 .. Len(xchg) :
             (/\ TokenAt(i).kind \in {"initial", "ticket"}
              /\ AnsweredAt(i)
              /\ ~CredsAt(i)
              /\ (i = 1 => CodeAt(1) = ResultCode.SaslBindInProgress))
             => (FailedWith("ServerSentNoCredentials") /\ Len(xchg) = i)

(* C19: the answer to a ticket of the token loop came without credentials  *)
C19_Witness ==
    /\ KerberosRan
    /\ Len(xchg) = 2
    /\ TokenAt(2).kind = "ticket"
    /\ AnsweredAt(2)
    /\ ~CredsAt(2)
    /\ FailedWith("ServerSentNoCredentials")

(* C19: Success without credentials as the first answer: DidntAcceptBind *)
C19_FirstCodeWitness ==
    /\ KerberosRan
    /\ Len(xchg) = 1
    /\ AnsweredAt(1)
    /\ CodeAt(1) = ResultCode.Success
    /\ ~CredsAt(1)
    /\ FailedWith("DidntAcceptBind")

(* C20: after a successful GSSAPI bind the connection's stream is the      *)
(* encrypting overlay exactly when the layer sent was 0x04, and the stream *)
(* the bind was called on when it was 0x01                                 *)
C20_OverlayIffConfidentiality ==
    (KerberosRan /\ result.ok) =>
        /\ WrappedRequests = {Len(xchg)}
        /\ SentPlaintext[1] \in {1, 4}
        /\ conn.stream = "KerberosEncrypted" <=> SentPlaintext[1] = 4
        /\ SentPlaintext[1] = 1 => conn.stream = result.op.stream
        /\ conn.state = "BoundKerberos"

(* C20: a successful GSSAPI bind over native-tls, layer 0x01 *)
C20_Witness ==
    /\ KerberosRan
    /\ result.ok
    /\ result.op.stream = "NativeTls"
    /\ conn.stream = "NativeTls"
    /\ SentPlaintext[1] = 1

-----------------------------------------------------------------------------
(* Properties of the overlay stream, stated over SpecOverlay *)

(* The last operation was a read that found the plaintext buffer empty *)
ReadOnEmptyBuffer == result.op.name = "read" /\ result.op.buffer = <<>>

(* That read got its four bytes of length *)
HeaderRead == ReadOnEmptyBuffer /\ Len(result.header) = 4

(* C21: a read with an empty plaintext buffer takes the first four bytes   *)
(* of the stream as a big-endian length; when the length is 0 or above the *)
(* negotiated maximum it fails with InvalidData and has read no token byte *)
(* and unwrapped nothing; otherwise the token it unwraps is exactly the    *)
(* next `length` bytes of the stream                                       *)
C21_OverlayReadLength ==
    /\ ReadOnEmptyBuffer =>
         /\ result.header = Take(result.op.wire, Len(result.header))
         /\ Len(result.header) <= 4
         /\ Len(result.header) < 4 => (result.token = <<>> /\ ~result.unwrapped)
    /\ HeaderRead =>
         LET token_length == from_be_bytes(Take(result.op.wire, 4))
         IN  IF token_length = 0 \/ token_length > overlay.max_buffer_size
             THEN /\ ~result.ok
                  /\ result.err = "InvalidData"
                  /\ result.token = <<>>
                  /\ ~result.unwrapped
                  /\ rx = Drop(result.op.wire, 4)
             ELSE /\ Len(result.token) <= token_length
                  /\ result.token = Take(Drop(result.op.wire, 4), Len(result.token))
                  /\ result.unwrapped <=> Len(result.token) = token_length
                  /\ rx = Drop(result.op.wire, 4 + Len(result.token))
                  /\ ~(~result.ok /\ result.err = "InvalidData")

(* C21: a frame of length 0 was refused with one byte still on the stream  *)
C21_Witness ==
    /\ HeaderRead
    /\ result.header = <<0, 0, 0, 0>>
    /\ ~result.ok
    /\ result.err = "InvalidData"
    /\ rx = <<9>>

(* The plaintext the last read put into the buffer *)
Fetched == IF result.unwrapped THEN unwrap(result.token)[1] ELSE <<>>

(* C33: a read that succeeds returns the front of the plaintext, what was  *)
(* buffered followed by what it unwrapped, and keeps the rest, so that the *)
(* reads together return the unwrapped tokens in arrival order with no     *)
(* byte lost or repeated; it fetches a token, the next header and token of *)
(* the stream, only when the buffer was empty.  A write that succeeds      *)
(* emits four bytes of big-endian length and then the wrapped bytes of the *)
(* whole buffer, and reports buf.len()                                     *)
C33_OverlayBytes ==
    /\ (result.op.name = "read" /\ result.ok) =>
         /\ result.bytes \o overlay.buffer = result.op.buffer \o Fetched
         /\ Len(result.bytes) = Min(result.op.buf_len, Len(result.op.buffer \o Fetched))
         /\ result.n = Len(result.bytes)
         /\ result.op.buffer # <<>> => (~result.unwrapped /\ rx = result.op.wire)
         /\ result.op.wire = result.header \o result.token \o rx
    /\ (result.op.name = "write" /\ result.ok) =>
         /\ Len(result.emitted) >= 4
         /\ from_be_bytes(Take(result.emitted, 4)) = Len(result.emitted) - 4
         /\ unwrap(Drop(result.emitted, 4)) = Some(result.op.buf)
         /\ result.n = Len(result.op.buf)

(* C33: the second read of a token of two bytes, one byte at a time *)
C33_Witness ==
    /\ result.op.name = "read"
    /\ result.ok
    /\ result.op.buf_len = 1
    /\ result.op.buffer = <<7>>
    /\ result.bytes = <<7>>
    /\ overlay.buffer = <<>>

(* C33: a write of three bytes *)
C33_WriteWitness ==
    /\ result.op.name = "write"
    /\ result.ok
    /\ result.op.buf = <<5, 6, 7>>
    /\ result.n = 3

(* C37: the length that a write puts in front of its token is no greater   *)
(* than the negotiated maximum buffer size                                 *)
C37_WrittenTokenFits ==
    (result.op.name = "write" /\ Len(result.emitted) >= 4)
    => from_be_bytes(Take(result.emitted, 4)) <= overlay.max_buffer_size

-----------------------------------------------------------------------------
(* Properties of the entry mapping, stated over SpecMapping *)

Mapped == result.op.name = "from_entry"

(* The lines of the last mapping that ran *)
LinesRun == IF Mapped THEN DOMAIN result.lines ELSE {}

FieldAt(i) == result.op.fields[i]

(* The attributes of the entry that carry the name of field i *)
AttributesFor(i) ==
    {k \in DOMAIN result.op.entry.attributes :
        result.op.entry.attributes[k].type = FieldAt(i).attribute_name}

AbsentFor(i) == AttributesFor(i) = {}

(* The values of the attribute of field i, which is present *)
ValuesFor(i) == result.op.entry.attributes[CHOOSE k \in AttributesFor(i) : TRUE].values

ZeroValue(i) == IF FieldAt(i).multiple THEN <<>> ELSE 0

GotZeroValue(i) == result.lines[i].ok /\ result.lines[i].value = ZeroValue(i)

FailedLine(i, variant) ==
    /\ ~result.lines[i].ok
    /\ result.lines[i].err = [variant |-> variant, field |-> FieldAt(i).attribute_name]
    /\ ~result.ok
    /\ result.err = result.lines[i].err

(* The default-or-error policy *)
DefaultOrMissing(i) ==
    IF FieldAt(i).default THEN GotZeroValue(i) ELSE FailedLine(i, "MissingField")

(* C22: a field whose attribute is missing from the entry gets the zero    *)
(* value of its type when it is declared with default, and fails the       *)
(* mapping with MissingField(attribute name) when it is not                *)
C22_MissingAttribute ==
    \A i \in LinesRun : AbsentFor(i) => DefaultOrMissing(i)

(* C22: both policies met an entry without the attribute *)
C22_Witness ==
    /\ Mapped
    /\ Len(result.lines) = 2
    /\ AbsentFor(1) /\ FieldAt(1).default /\ GotZeroValue(1)
    /\ AbsentFor(2) /\ ~FieldAt(2).default /\ FailedLine(2, "MissingField")

(* C23: a single-valued field whose attribute has two or more values fails *)
(* with TooManyValues(attribute name); with no value it is treated as an   *)
(* absent attribute is; with one value the value is parsed and a value     *)
(* that does not parse fails with FailedToParseField(attribute name, ..)   *)
C23_SingleValuedField ==
    \A i \in LinesRun :
        (~FieldAt(i).multiple /\ ~AbsentFor(i)) =>
            LET values == ValuesFor(i)
            IN  /\ Len(values) >= 2 => FailedLine(i, "TooManyValues")
                /\ Len(values) = 0 => DefaultOrMissing(i)
                /\ Len(values) = 1 =>
                     IF Len(values[1]) = 1 /\ values[1][1] \in 48 .. 57
                     THEN result.lines[i].ok /\ result.lines[i].value = values[1][1] - 48
                     ELSE FailedLine(i, "FailedToParseField")

(* C23: a single-valued field met two values, of which the first parses *)
C23_Witness ==
    /\ Mapped
    /\ Len(result.lines) = 1
    /\ ~FieldAt(1).multiple
    /\ ~AbsentFor(1)
    /\ ValuesFor(1) = <<<<49>>, <<50>>>>
    /\ FailedLine(1, "TooManyValues")

(* C30: for an absent attribute the zero value is used only for a field of *)
(* kind Single declared with default; every other field, a Multiple one    *)
(* with default included, fails the mapping with MissingField(name)        *)
C30_ZeroValueOnlyForSingle ==
    \A i \in LinesRun :
        AbsentFor(i) =>
            IF ~FieldAt(i).multiple /\ FieldAt(i).default
            THEN GotZeroValue(i)
            ELSE FailedLine(i, "MissingField")

-----------------------------------------------------------------------------
(* Properties of the search request, stated over SpecRequest *)

(* C27: search writes one SearchRequest with size_limit 0, time_limit 0    *)
(* and types_only false under the next message id and returns without      *)
(* reading; the request lists the attribute names of the Output's          *)
(* descriptor when the descriptor lists any, and "*" alone otherwise, as   *)
(* for a derived record whose only field is the DN field                   *)
C27_SearchRequestAttributes ==
    result.op.name = "search" =>
        /\ result.op.request.kind = "SearchRequest"
        /\ result.op.request.size_limit = 0
        /\ result.op.request.time_limit = 0
        /\ result.op.request.types_only = FALSE
        /\ sent # <<>> /\ sent[Len(sent)] = result.op.id
        /\ conn.next_message_id = result.op.id + 1
        /\ xchg = <<>>
        /\ result.op.request.attributes =
             (IF result.op.output.derived /\ result.op.output.fields # <<>>
              THEN [i \in DOMAIN result.op.output.fields |->
                      result.op.output.fields[i].attribute_name]
              ELSE <<"*">>)

-----------------------------------------------------------------------------
(* Properties of the channel bindings, stated over SpecChannel *)

HexDigits == (48 .. 57) \cup (97 .. 102)

(* The value of an ASCII hex digit *)
HexValue(c) == IF c <= 57 THEN c - 48 ELSE c - 87

(* C28: with a peer certificate the channel binding is the 21 bytes        *)
(* "tls-server-end-point:" and then 64 lowercase hex digits, two for each  *)
(* byte of the SHA-256 digest of the first certificate; without one it is  *)
(* absent                                                                  *)
C28_ChannelBindingHex ==
    result.op.name = "channel_bindings" =>
        LET certs == result.op.peer_certificates
        IN  IF certs = None \/ certs[1] = <<>>
            THEN result.value = None
            ELSE /\ result.value # None
                 /\ Len(result.value[1]) = 21 + 64
                 /\ Take(result.value[1], 21) = TlsServerEndPoint
                 /\ \A i \in 1 .. 32 :
                      LET hi == result.value[1][21 + 2 * i - 1]
                          lo == result.value[1][21 + 2 * i]
                      IN  /\ hi \in HexDigits /\ lo \in HexDigits
                          /\ 16 * HexValue(hi) + HexValue(lo) = certs[1][1].digest[i]

-----------------------------------------------------------------------------
(* Properties of the search iterator, stated over SpecSearch *)

Last(q) == q[Len(q)]
IsEntry(op) == op.tag = OpTag.SearchResEntry
IsReference(op) == op.tag = OpTag.SearchResRef
IsDone(op) == op.tag = OpTag.SearchResDone
EndsWithDone(q) == q # <<>> /\ IsDone(Last(q))
DoneCode(q) == Last(q).args[1]
Front(q) == SubSeq(q, 1, Len(q) - 1)
MappingErrors == {"MissingAttributeValue", "FailedToParseField", "TooManyValuesInScalarField"}
IsMappingError(item) == item.kind = "Err" /\ item.err \in MappingErrors

(* The items a caller gets for the answer q of entries and a final         *)
(* SearchResultDone, one per poll: an item per entry, the item of the      *)
(* SearchResultDone, then the terminal sentinel for ever                   *)
ItemAt(q, i) ==
    IF i < Len(q) THEN EntryItem(q[i].args[1])
    ELSE IF i = Len(q) THEN DoneItem(DoneCode(q))
    ELSE NoneItem

(* C4: for k entries followed by SearchResultDone(Success), however the    *)
(* bytes are grouped into reads, the polls yield one item per entry in     *)
(* wire order and then the terminal sentinel                               *)
C4_EntriesThenTerminal ==
    (/\ iter.active
     /\ EndsWithDone(script)
     /\ DoneCode(script) = ResultCode.Success
     /\ \A i \in 1 .. Len(script) - 1 : IsEntry(script[i]))
    => \A i \in 1 .. Len(polls) : polls[i] = ItemAt(script, i)

(* C4: two entries and the SearchResultDone, the last of them served from  *)
(* bytes an earlier read had brought in                                    *)
C4_Witness ==
    /\ script = <<Entry(1), Entry(2), Done("Success")>>
    /\ polls = <<OkItem(1), OkItem(2), NoneItem>>
    /\ ~lastRead

(* C5: with SearchResultReference PDUs among the entries and a final       *)
(* SearchResultDone(Success), however the bytes are grouped into reads,    *)
(* the polls yield exactly the entries in order and then the terminal      *)
(* sentinel                                                                *)
C5_ReferencesAreSkipped ==
    (/\ iter.active
     /\ EndsWithDone(script)
     /\ DoneCode(script) = ResultCode.Success
     /\ \A i \in 1 .. Len(script) - 1 : IsEntry(script[i]) \/ IsReference(script[i]))
    => LET q == SelectSeq(Front(script), IsEntry) \o <<Last(script)>>
       IN  \A i \in 1 .. Len(polls) : polls[i] = ItemAt(q, i)

(* C6: an entry that fails to map is yielded as one Err item, done stays   *)
(* unset, and the polls after it yield what the following PDUs yield       *)
(* after an entry that mapped                                              *)
C6_MappingFailureDoesNotEnd ==
    /\ (polls # <<>> /\ IsMappingError(Last(polls))) => ~iter.done
    /\ (/\ iter.active
        /\ \A i \in 1 .. Len(script) : IsEntry(script[i]) \/ (i = Len(script) /\ IsDone(script[i])))
       => \A i \in 1 .. Len(polls) :
            /\ (i <= Len(script) /\ IsEntry(script[i])) => polls[i] = EntryItem(script[i].args[1])
            /\ (i = Len(script) /\ IsDone(script[i])) => polls[i] = DoneItem(script[i].args[1])

(* C6: an entry that lacks an attribute, then the entry after it *)
C6_Witness ==
    /\ Len(polls) = 3
    /\ polls[1] = ErrItem("MissingAttributeValue")
    /\ polls[2] = OkItem(2)
    /\ polls[3] = NoneItem

(* C7: once a SearchResultDone has been decoded, every later poll returns  *)
(* the terminal sentinel, reads nothing and leaves stream and iterator as  *)
(* they are                                                                *)
C7_DoneIsFinal ==
    [][iter.done =>
         /\ polls' = Append(polls, NoneItem)
         /\ ~lastRead'
         /\ UNCHANGED <<iter, rx, rxEnd, rxFail>>]_vars

(* C7: a poll after the poll that decoded the SearchResultDone *)
C7_Witness ==
    /\ iter.done
    /\ polls = <<ErrItem("NoSuchObject"), NoneItem>>
    /\ ~lastRead

(* C8: a SearchResultDone with a result code other than Success yields     *)
(* one Err item, sets done, and every poll after it yields the terminal    *)
(* sentinel                                                                *)
C8_FailedDoneIsOneError ==
    (iter.active /\ EndsWithDone(script) /\ DoneCode(script) # ResultCode.Success)
    => LET item == DoneItem(DoneCode(script))
           at   == {i \in 1 .. Len(polls) : polls[i] = item}
       IN  /\ item.kind = "Err"
           /\ Cardinality(at) = (IF iter.done THEN 1 ELSE 0)
           /\ \A j \in at : \A i \in j + 1 .. Len(polls) : polls[i] = NoneItem

(* C8: an entry, the error of the SearchResultDone, then terminal twice *)
C8_Witness ==
    /\ iter.done
    /\ polls = <<OkItem(1), ErrItem("OperationsError"), NoneItem, NoneItem>>

(* The SearchResultError variant that has the name of the result code *)
CorrespondingVariant(code) ==
    IF CodeName(code) \in {"NoSuchObject", "OperationsError", "InsufficientAccessRights",
                           "TimeLimitExceeded", "SizeLimitExceeded"}
    THEN CodeName(code)
    ELSE "Other"

(* C9: the error item of a non-Success SearchResultDone is the variant     *)
(* that corresponds to its result code, and Other only for the codes that  *)
(* have no variant of their own                                            *)
C9_DoneErrorVariant ==
    (iter.done /\ EndsWithDone(script) /\ DoneCode(script) # ResultCode.Success)
    => \E i \in 1 .. Len(polls) :
         /\ polls[i].kind = "Err"
         /\ polls[i].err = CorrespondingVariant(DoneCode(script))

(* The bytes the iterator retains between polls *)
Retained == IF iter.remainder = None THEN <<>> ELSE iter.remainder[1]

(* The bytes of the answer from its PDU k + 1 on *)
WireFrom(k) ==
    Concat([i \in 1 .. Len(script) - k |-> Encode(LdapMessage(result.op.id, script[k + i]))])

(* The polls that yielded what a decoded PDU gave *)
DecodedItems == SelectSeq(polls, LAMBDA item : ~(item.kind = "Err" /\ item.err = "Io"))

(* How many PDUs of the answer may have been decoded so far: as many as    *)
(* gave an item, and the references among them                             *)
DecodedCounts ==
    {k \in 0 .. Len(script) :
        Len(SelectSeq(SubSeq(script, 1, k), LAMBDA op : ~IsReference(op))) = Len(DecodedItems)}

(* C29: after an item was yielded (Ok, mapping error, InvalidLdapMessage   *)
(* or the Io error of a read that failed in the middle of a PDU), the      *)
(* bytes the iterator retains and the bytes still unread are together the  *)
(* answer from the first PDU not decoded yet on: no byte received is       *)
(* dropped and none is decoded twice                                       *)
C29_RetainedBytes ==
    (iter.active /\ polls # <<>> /\ Last(polls).kind # "None")
    => \E k \in DecodedCounts : Retained \o rx = WireFrom(k)

(* What the poll that decodes the PDU op yields *)
PduItem(op) ==
    IF IsEntry(op) THEN EntryItem(op.args[1])
    ELSE IF IsDone(op) THEN DoneItem(op.args[1])
    ELSE [kind |-> "Err", err |-> "InvalidLdapMessage", op |-> op]

IsInvalidItem(item) == item.kind = "Err" /\ item.err = "InvalidLdapMessage"

(* C31: a PDU whose protocol op is none of SearchResultEntry,              *)
(* SearchResultReference and SearchResultDone yields InvalidLdapMessage    *)
(* with that op and leaves done unset, and the polls after it yield what   *)
(* the PDUs that follow it yield                                           *)
C31_InvalidMessageDoesNotEnd ==
    /\ (polls # <<>> /\ IsInvalidItem(Last(polls))) => ~iter.done
    /\ (iter.active /\ \A i \in 1 .. Len(script) : ~IsReference(script[i]))
       => \A i \in 1 .. Min(Len(polls), Len(script)) : polls[i] = PduItem(script[i])

(* C31: an unexpected op, the entry after it, then the SearchResultDone *)
C31_Witness ==
    /\ script = <<NotASearchOp, Entry(2), Done("Success")>>
    /\ polls = <<PduItem(NotASearchOp), OkItem(2), NoneItem>>
    /\ iter.done

(* The server answered the i-th request of the last operation with a frame *)
(* that carries the id of the request                                      *)
AnsweredUnderItsId(i) ==
    /\ Decode(xchg[i].reply).status = "Ok"
    /\ Decode(xchg[i].reply).message.message_id = xchg[i].id

(* C34: what a search iterator yields comes from the PDUs sent under the   *)
(* id of its own SearchRequest, one item for each in order and nothing but *)
(* read errors and the terminal sentinel after them, whatever an iterator  *)
(* dropped earlier left unread; and a bind after it that the server        *)
(* answers under the bind's id returns the op of that answer               *)
C34_OwnPdusOnly ==
    /\ iter.active =>
         \A i \in 1 .. Len(polls) :
            IF i <= Len(script) THEN polls[i] = PduItem(script[i])
            ELSE polls[i] \in {NoneItem, ErrItem("Io"), ErrItem("Io(ConnectionReset)")}
    /\ \A i \in 1 .. Len(xchg) :
         (AnsweredUnderItsId(i) /\ xchg[i].ret.ok) => xchg[i].response_id = Some(xchg[i].id)

(* C35: once a poll has reported that the server closed the connection or  *)
(* that the buffered bytes do not decode, polling on yields the terminal   *)
(* sentinel after finitely many polls                                      *)
C35_PollingTerminates ==
    (/\ iter.active
     /\ polls # <<>>
     /\ Last(polls) \in {ErrItem("Io(ConnectionReset)"), ErrItem("MalformedLdapMessage")})
    ~> (polls = <<NoneItem>>)

====
